---- MODULE Spec2Model ----
(***************************************************************************)
(* A model of the cachemere cache: the Cache orchestrator (cache.hpp), the *)
(* LRU eviction policy, the Always and TinyLFU insertion policies with     *)
(* their bloom sketches, and the memory and count constraint policies.     *)
(*                                                                         *)
(* A cache is a record; every handler of the source is an operator from a  *)
(* cache (or policy) record to the record after the call.  A running call  *)
(* is a context [c, ev, st]: the cache, the events dispatched so far and   *)
(* whether the call is still running ("ok"), was aborted by a failed       *)
(* assertion or a crash ("abort"), or loops forever ("hang").              *)
(***************************************************************************)
EXTENDS Integers, Sequences, FiniteSets, TLC

VARIABLES
    cache,           \* cache[id]: the state of the cache object id
    insertionKind,   \* template argument InsertionPolicy: "always" | "tinylfu"
    constraintKind,  \* template argument ConstraintPolicy: "memory" | "count"
    NDEBUG,          \* TRUE when assertions are compiled out
    status,          \* "ok" | "abort" | "hang": the state of the process
    last,            \* the last completed call: operation, arguments, result, events
    threads,         \* thread-safe mode: per thread, the call in progress
    observed,        \* keys the insertion policy was shown since construction or clear
    unit             \* a policy object driven directly, handler by handler, as the unit tests do

vars == <<cache, insertionKind, constraintKind, NDEBUG, status, last, threads, observed, unit>>

----------------------------------------------------------------------------
(* Bounds of the model.                                                    *)

MaxKey == 2
MaxValue == 2
MaxCapacity == 4    \* largest memory budget, in bytes
MaxCount == 2       \* largest item budget
MaxStale == 1
SketchCardinality == 1
StatWindow == 2

MaxInsertKey == 3   \* keys of the runs that only insert and look up

Keys == 1..MaxKey
InsertKeys == 1..MaxInsertKey
AllKeys == Keys \cup InsertKeys
Values == 1..MaxValue
Capacities == IF constraintKind = "memory" THEN 0..MaxCapacity ELSE 0..MaxCount

\* size_t arithmetic wraps; every legitimate size of the model is far below
\* half the modulus, so a wrapped value behaves as it does with 64 bits.
SizeModulus == 4096
Wrap(n) == n % SizeModulus

\* static_cast<uint32_t>: the samples of the accumulators are uint32_t, half
\* as wide as size_t; the width is scaled as that of size_t is.
Uint32Modulus == 64
static_cast_uint32_t(n) == n % Uint32Modulus

\* What a read through a dangling key reference may yield: any key, or a
\* value that is no key of the program (JunkKey).
JunkKey == 0
StaleReads == Keys \cup {JunkKey}

----------------------------------------------------------------------------
(* Sequence helpers.                                                       *)

Last(s) == s[Len(s)]
Front(s) == SubSeq(s, 1, Len(s) - 1)
Reverse(s) == [i \in 1..Len(s) |-> s[Len(s) + 1 - i]]
SeqRemoveAt(s, i) == SubSeq(s, 1, i - 1) \o SubSeq(s, i + 1, Len(s))
Range(s) == {s[i] : i \in 1..Len(s)}
Min2(a, b) == IF a <= b THEN a ELSE b
\* list.erase / splice of the node of key: the list without it
Without(s, key) == SelectSeq(s, LAMBDA k : k # key)

\* the elements of a set of numbers, ascending
RECURSIVE SetToSeq(_)
SetToSeq(S) ==
    IF S = {} THEN <<>>
    ELSE LET m == CHOOSE x \in S : \A y \in S : x <= y IN <<m>> \o SetToSeq(S \ {m})

RECURSIVE SumOver(_, _)
SumOver(S, f) ==
    IF S = {} THEN 0
    ELSE LET x == CHOOSE y \in S : TRUE IN f[x] + SumOver(S \ {x}, f)

----------------------------------------------------------------------------
(* Measurement and items (measurement.h, item.h).                          *)

\* The empty key and the empty value, of which measurement::Size returns 0:
\* numbers that are no key and no value of the other runs.
EmptyKey == SizeModulus
EmptyValue == SizeModulus

\* A value whose measured size is the smallest one that no uint32_t holds.
HugeValue == SizeModulus + 1

\* measurement of a key: the empty key has size 0, every other key size 1
MeasureKey(k) == IF k = EmptyKey THEN 0 ELSE 1
\* measurement of a value: the empty value has size 0, the huge value the
\* size 2^32 (scaled), values 1, 3, ... have size 2, values 2, 4, ... size 1
MeasureValue(v) ==
    IF v = EmptyValue THEN 0
    ELSE IF v = HugeValue THEN Uint32Modulus
    ELSE 1 + (v % 2)

Item(key_size, value, value_size) ==
    [m_key_size |-> key_size, m_value |-> value,
     m_value_size |-> value_size, m_total_size |-> key_size + value_size]

----------------------------------------------------------------------------
(* Hash mixer and bloom sketches (hash_mixer.hpp, bloom_filter.hpp,        *)
(* counting_bloom_filter.hpp, bloom_filter_math.hpp).                      *)

KeyHash(k) == k

\* std::minstd_rand: x' = 48271 * x mod (2^31 - 1), computed by Schrage's
\* decomposition so that no intermediate product exceeds 31 bits.
MinstdModulus == 2147483647
MinstdMultiplier == 48271
MinstdSeed(s) == IF s % MinstdModulus = 0 THEN 1 ELSE s % MinstdModulus
MinstdNext(x) ==
    LET q == MinstdModulus \div MinstdMultiplier
        r == MinstdModulus % MinstdMultiplier
        t == MinstdMultiplier * (x % q) - r * (x \div q)
    IN  IF t < 0 THEN t + MinstdModulus ELSE t

RECURSIVE MixerStream(_, _, _)
MixerStream(x, range, n) ==
    IF n = 0 THEN <<>>
    ELSE LET y == MinstdNext(x) IN <<y % range>> \o MixerStream(y, range, n - 1)

\* The n filter indices HashMixer{key, range} yields in turn.
HashMixer(key, range, n) == MixerStream(MinstdSeed(KeyHash(key)), range, n)

\* -cardinality * ln(0.01) / ln(2)^2, truncated
optimal_filter_size(cardinality) == (cardinality * 9585) \div 1000
\* (filter_size / cardinality) * ln(2), truncated
optimal_nb_of_hash_functions(cardinality, filter_size) ==
    (filter_size * 693147) \div (cardinality * 1000000)

BloomFilter(cardinality) ==
    [m_cardinality |-> cardinality,
     m_filter |-> [i \in 0..(optimal_filter_size(cardinality) - 1) |-> FALSE],
     m_nb_hashes |-> optimal_nb_of_hash_functions(cardinality, optimal_filter_size(cardinality))]

FilterSize(B) == Cardinality(DOMAIN B.m_filter)
\* The index vectors of the keys of the model in the filters of the model,
\* which all have the cardinality SketchCardinality.
MixerTable ==
    [key \in AllKeys |->
        HashMixer(key, optimal_filter_size(SketchCardinality),
                  optimal_nb_of_hash_functions(SketchCardinality,
                                               optimal_filter_size(SketchCardinality)))]
Indices(B, key) ==
    IF B.m_cardinality = SketchCardinality /\ key \in AllKeys THEN MixerTable[key]
    ELSE HashMixer(key, FilterSize(B), B.m_nb_hashes)
Probes(B, key) == Range(Indices(B, key))

\* add that sets the bit of the first index only
BloomFilter_add_first_index(B, key) ==
    [B EXCEPT !.m_filter[Indices(B, key)[1]] = TRUE]

BloomFilter_add(B, key) ==
    [B EXCEPT !.m_filter = [i \in DOMAIN @ |-> IF i \in Probes(B, key) THEN TRUE ELSE @[i]]]

BloomFilter_clear(B) == [B EXCEPT !.m_filter = [i \in DOMAIN @ |-> FALSE]]

BloomFilter_maybe_contains(B, key) == \A i \in Probes(B, key) : B.m_filter[i]

CountingBloomFilter(cardinality) ==
    [m_cardinality |-> cardinality,
     m_filter |-> [i \in 0..(optimal_filter_size(cardinality) - 1) |-> 0],
     m_nb_hashes |-> optimal_nb_of_hash_functions(cardinality, optimal_filter_size(cardinality)),
     m_nb_nonzero |-> 0]

RECURSIVE MinOfCounters(_, _)
MinOfCounters(filter, indices) ==
    IF Len(indices) = 0 THEN SizeModulus - 1   \* numeric_limits::max(): above every counter
    ELSE Min2(filter[indices[1]], MinOfCounters(filter, Tail(indices)))

CountingBloomFilter_estimate(B, key) ==
    MinOfCounters(B.m_filter, Indices(B, key))

\* The second loop of add walks the index vector in order; an index that the
\* mixer produced twice is visited twice, and is incremented the second time
\* only if its counter still equals the minimum.
RECURSIVE AddLoop(_, _, _)
AddLoop(B, indices, minimum_val) ==
    IF Len(indices) = 0 THEN B
    ELSE LET idx == indices[1]
             B1 == IF B.m_filter[idx] = minimum_val
                   THEN [B EXCEPT !.m_filter[idx] = @ + 1,
                                  !.m_nb_nonzero = @ + (IF minimum_val = 0 THEN 1 ELSE 0)]
                   ELSE B
         IN  AddLoop(B1, Tail(indices), minimum_val)

\* add that increments the first counter that holds the minimum and no other
CountingBloomFilter_add_first_minimum(B, key) ==
    LET indices == Indices(B, key)
        minimum_val == MinOfCounters(B.m_filter, indices)
        first == CHOOSE i \in 1..Len(indices) :
                    /\ B.m_filter[indices[i]] = minimum_val
                    /\ \A j \in 1..(i - 1) : B.m_filter[indices[j]] # minimum_val
    IN  [B EXCEPT !.m_filter[indices[first]] = @ + 1,
                  !.m_nb_nonzero = @ + (IF minimum_val = 0 THEN 1 ELSE 0)]

CountingBloomFilter_add(B, key) ==
    LET indices == Indices(B, key)
    IN  AddLoop(B, indices, MinOfCounters(B.m_filter, indices))

CountingBloomFilter_clear(B) ==
    [B EXCEPT !.m_filter = [i \in DOMAIN @ |-> 0], !.m_nb_nonzero = 0]

\* decay that halves the counters and leaves the count of non-zero slots
CountingBloomFilter_decay_keeps_count(B) ==
    [B EXCEPT !.m_filter = [i \in DOMAIN @ |-> @[i] \div 2]]

\* decay that empties the counters
CountingBloomFilter_decay_to_zero(B) ==
    [B EXCEPT !.m_filter = [i \in DOMAIN @ |-> 0], !.m_nb_nonzero = 0]

CountingBloomFilter_decay(B) ==
    [B EXCEPT !.m_filter = [i \in DOMAIN @ |-> @[i] \div 2],
              !.m_nb_nonzero = Wrap(@ - Cardinality({i \in DOMAIN B.m_filter : B.m_filter[i] = 1}))]

----------------------------------------------------------------------------
(* Insertion policies (insertion_always.hpp, insertion_tinylfu.hpp).       *)
(* The policy record of InsertionAlways is empty: it has no state.         *)

InsertionAlways == [m_none |-> 0]

InsertionTinyLFU(cardinality) ==
    [m_gatekeeper |-> BloomFilter(cardinality),
     m_frequency_sketch |-> CountingBloomFilter(cardinality)]

InsertionTinyLFU_clear_sketch_only(P) ==
    [P EXCEPT !.m_frequency_sketch = CountingBloomFilter_clear(@)]

InsertionTinyLFU_clear(P) ==
    [m_gatekeeper |-> BloomFilter_clear(P.m_gatekeeper),
     m_frequency_sketch |-> CountingBloomFilter_clear(P.m_frequency_sketch)]

\* reset that clears the gatekeeper and leaves the counters as they are
InsertionTinyLFU_reset_gatekeeper_only(P) ==
    [P EXCEPT !.m_gatekeeper = BloomFilter_clear(@)]

InsertionTinyLFU_reset(P) ==
    [m_gatekeeper |-> BloomFilter_clear(P.m_gatekeeper),
     m_frequency_sketch |-> CountingBloomFilter_decay(P.m_frequency_sketch)]

\* touch_item that resets as soon as the estimate reaches the cardinality
InsertionTinyLFU_touch_item_resets_early(P, key) ==
    IF BloomFilter_maybe_contains(P.m_gatekeeper, key)
    THEN LET P1 == [P EXCEPT !.m_frequency_sketch = CountingBloomFilter_add(@, key)]
         IN  IF CountingBloomFilter_estimate(P1.m_frequency_sketch, key)
                    >= P1.m_frequency_sketch.m_cardinality
             THEN InsertionTinyLFU_reset(P1)
             ELSE P1
    ELSE [P EXCEPT !.m_gatekeeper = BloomFilter_add(@, key)]

InsertionTinyLFU_touch_item(P, key) ==
    IF BloomFilter_maybe_contains(P.m_gatekeeper, key)
    THEN LET P1 == [P EXCEPT !.m_frequency_sketch = CountingBloomFilter_add(@, key)]
         IN  IF CountingBloomFilter_estimate(P1.m_frequency_sketch, key)
                    > P1.m_frequency_sketch.m_cardinality
             THEN InsertionTinyLFU_reset(P1)
             ELSE P1
    ELSE [P EXCEPT !.m_gatekeeper = BloomFilter_add(@, key)]

InsertionTinyLFU_estimate_count_for_key(P, key) ==
    CountingBloomFilter_estimate(P.m_frequency_sketch, key)
        + (IF BloomFilter_maybe_contains(P.m_gatekeeper, key) THEN 1 ELSE 0)

\* admission that lets every key in
InsertionTinyLFU_should_add_unseen(P, key) == TRUE

InsertionTinyLFU_should_add(P, key) == BloomFilter_maybe_contains(P.m_gatekeeper, key)

\* should_replace that lets a candidate through on a tie
InsertionTinyLFU_should_replace_on_tie(P, victim, candidate) ==
    InsertionTinyLFU_estimate_count_for_key(P, candidate)
        >= InsertionTinyLFU_estimate_count_for_key(P, victim)

InsertionTinyLFU_should_replace(P, victim, candidate) ==
    InsertionTinyLFU_estimate_count_for_key(P, candidate)
        > InsertionTinyLFU_estimate_count_for_key(P, victim)

InsertionAlways_should_add(P, key) == TRUE
InsertionAlways_should_replace(P, victim, candidate) == TRUE

should_add(P, key) ==
    IF insertionKind = "tinylfu" THEN InsertionTinyLFU_should_add(P, key)
    ELSE InsertionAlways_should_add(P, key)

should_replace(P, victim, candidate) ==
    IF insertionKind = "tinylfu" THEN InsertionTinyLFU_should_replace(P, victim, candidate)
    ELSE InsertionAlways_should_replace(P, victim, candidate)

NewInsertionPolicy ==
    IF insertionKind = "tinylfu" THEN InsertionTinyLFU(SketchCardinality) ELSE InsertionAlways

----------------------------------------------------------------------------
(* LRU eviction policy (eviction_lru.hpp).                                 *)
(*                                                                         *)
(* m_keys is the list of key references, front first; an entry is          *)
(* [key, live]: live says that the store node the reference points to      *)
(* still exists.  A reference whose node was erased dangles: between calls *)
(* its key field is JunkKey, and every call fixes what reading it yields   *)
(* (StaleView).  m_nodes maps each tracked key to its own list node, the   *)
(* live entry of that key; the model keeps the set of its keys.            *)

EvictionLRU == [m_keys |-> <<>>, m_nodes |-> {}]

EvictionLRU_clear(E) == [m_keys |-> <<>>, m_nodes |-> {}]

NodeOf(E, key) == CHOOSE i \in 1..Len(E.m_keys) : E.m_keys[i].live /\ E.m_keys[i].key = key
HasNode(E, key) == \E i \in 1..Len(E.m_keys) : E.m_keys[i].live /\ E.m_keys[i].key = key

EvictionLRU_on_insert_assert(E, key) == key \notin E.m_nodes

EvictionLRU_on_insert(E, key) ==
    [m_keys |-> <<[key |-> key, live |-> TRUE]>> \o E.m_keys,
     m_nodes |-> E.m_nodes \cup {key}]

EvictionLRU_on_cache_hit_assert(E, key) == key \in E.m_nodes

EvictionLRU_on_cache_hit(E, key) ==
    IF key \in E.m_nodes /\ HasNode(E, key)
    THEN LET i == NodeOf(E, key)
         IN  IF i # 1
             THEN [E EXCEPT !.m_keys = <<E.m_keys[i]>> \o SeqRemoveAt(E.m_keys, i)]
             ELSE E
    ELSE E

EvictionLRU_on_update(E, key) == EvictionLRU_on_cache_hit(E, key)

EvictionLRU_on_evict_assert(E, key) ==
    /\ E.m_nodes # {}
    /\ E.m_keys # <<>>
    /\ (Last(E.m_keys).key # key => key \in E.m_nodes)

EvictionLRU_on_evict(E, key) ==
    IF E.m_keys # <<>> /\ Last(E.m_keys).key = key
    THEN [m_keys |-> Front(E.m_keys), m_nodes |-> E.m_nodes \ {key}]
    ELSE [E EXCEPT !.m_nodes = @ \ {key}]

\* victim_begin() .. victim_end(): the keys read from the list, back first
EvictionLRU_victims(E) == [i \in 1..Len(E.m_keys) |-> E.m_keys[Len(E.m_keys) + 1 - i].key]

NewEvictionPolicy == EvictionLRU

----------------------------------------------------------------------------
(* EvictionSegmentedLRU (eviction_segmented_lru.hpp).  Each segment is a   *)
(* list of keys, most recently used first, and the set of the keys its     *)
(* node map holds.                                                         *)

EvictionSegmentedLRU(size) ==
    [m_protected_segment_size |-> size,
     m_probation_list |-> <<>>, m_probation_nodes |-> {},
     m_protected_list |-> <<>>, m_protected_nodes |-> {}]

EvictionSegmentedLRU_clear(S) == EvictionSegmentedLRU(S.m_protected_segment_size)

EvictionSegmentedLRU_on_insert_assert(S, key) == key \notin S.m_probation_nodes

EvictionSegmentedLRU_on_insert(S, key) ==
    [S EXCEPT !.m_probation_list = <<key>> \o @,
              !.m_probation_nodes = @ \cup {key}]

\* returns false, and does nothing, for a key that is not in probation
move_to_protected(S, key) ==
    IF key \notin S.m_probation_nodes THEN S
    ELSE [S EXCEPT !.m_protected_list = <<key>> \o @,
                   !.m_probation_list = Without(@, key),
                   !.m_probation_nodes = @ \ {key},
                   !.m_protected_nodes = @ \cup {key}]

pop_to_probation_head(S) ==
    IF S.m_protected_list = <<>> THEN S
    ELSE LET key == Head(S.m_protected_list)
         IN  [S EXCEPT !.m_probation_list = <<key>> \o @,
                       !.m_protected_list = Tail(@),
                       !.m_protected_nodes = @ \ {key},
                       !.m_probation_nodes = @ \cup {key}]

\* returns false, and does nothing, when the protected segment is empty
pop_to_probation(S) ==
    IF S.m_protected_list = <<>> THEN S
    ELSE LET key == Last(S.m_protected_list)
         IN  [S EXCEPT !.m_probation_list = <<key>> \o @,
                       !.m_protected_list = Front(@),
                       !.m_protected_nodes = @ \ {key},
                       !.m_probation_nodes = @ \cup {key}]

\* while (m_protected_list.size() > m_protected_segment_size)
RECURSIVE demote_loop(_)
demote_loop(S) ==
    IF Len(S.m_protected_list) > S.m_protected_segment_size
    THEN demote_loop(pop_to_probation(S))
    ELSE S

EvictionSegmentedLRU_promote(S, key) ==
    IF key \in S.m_protected_nodes
    THEN [S EXCEPT !.m_protected_list = <<key>> \o Without(@, key)]
    ELSE move_to_protected(S, key)

\* the asserts of on_cache_hit: the node maps are as long as the lists, the
\* promotion finds the key, and one demotion brings the protected segment
\* down to its size
EvictionSegmentedLRU_on_cache_hit_assert(S, key) ==
    /\ Cardinality(S.m_probation_nodes) = Len(S.m_probation_list)
    /\ Cardinality(S.m_protected_nodes) = Len(S.m_protected_list)
    /\ key \in S.m_protected_nodes \cup S.m_probation_nodes
    /\ Len(EvictionSegmentedLRU_promote(S, key).m_protected_list)
          <= S.m_protected_segment_size + 1

EvictionSegmentedLRU_on_cache_hit(S, key) ==
    demote_loop(EvictionSegmentedLRU_promote(S, key))

EvictionSegmentedLRU_on_update(S, key) == EvictionSegmentedLRU_on_cache_hit(S, key)

EvictionSegmentedLRU_on_evict_assert(S, key) ==
    /\ S.m_protected_list # <<>> \/ S.m_probation_list # <<>>
    /\ key \in S.m_probation_nodes \cup S.m_protected_nodes

\* on_evict that erases the node map entry and leaves the list node
EvictionSegmentedLRU_on_evict_keeps_node(S, key) ==
    [S EXCEPT !.m_probation_nodes = @ \ {key}, !.m_protected_nodes = @ \ {key}]

EvictionSegmentedLRU_on_evict(S, key) ==
    IF key \in S.m_probation_nodes
    THEN [S EXCEPT !.m_probation_list = Without(@, key), !.m_probation_nodes = @ \ {key}]
    ELSE [S EXCEPT !.m_protected_list = Without(@, key), !.m_protected_nodes = @ \ {key}]

\* VictimIterator: reverse iterators as positions counted from the tail of
\* each list; position Len + 1 is rend().
VictimIterator(probation_iterator, probation_end_iterator, protected_iterator) ==
    [m_probation_iterator |-> probation_iterator,
     m_probation_end_iterator |-> probation_end_iterator,
     m_protected_iterator |-> protected_iterator,
     m_done_with_probation |-> probation_iterator = probation_end_iterator]

victim_begin(S) == VictimIterator(1, Len(S.m_probation_list) + 1, 1)
victim_end(S) ==
    VictimIterator(Len(S.m_probation_list) + 1, Len(S.m_probation_list) + 1,
                   Len(S.m_protected_list) + 1)

\* operator*
VictimIterator_deref(S, it) ==
    IF it.m_done_with_probation
    THEN Reverse(S.m_protected_list)[it.m_protected_iterator]
    ELSE Reverse(S.m_probation_list)[it.m_probation_iterator]

\* operator++
VictimIterator_increment(it) ==
    IF it.m_done_with_probation
    THEN [it EXCEPT !.m_protected_iterator = @ + 1]
    ELSE [it EXCEPT !.m_probation_iterator = @ + 1,
                    !.m_done_with_probation =
                        it.m_probation_iterator + 1 = it.m_probation_end_iterator]

\* operator==
VictimIterator_equal(it, other) ==
    /\ it.m_protected_iterator = other.m_protected_iterator
    /\ it.m_probation_iterator = other.m_probation_iterator
    /\ it.m_done_with_probation = other.m_done_with_probation

\* for (it = victim_begin(); it != victim_end(); ++it): the keys *it yields
RECURSIVE victim_walk(_, _)
victim_walk(S, it) ==
    IF VictimIterator_equal(it, victim_end(S)) THEN <<>>
    ELSE <<VictimIterator_deref(S, it)>> \o victim_walk(S, VictimIterator_increment(it))

EvictionSegmentedLRU_victims(S) == victim_walk(S, victim_begin(S))

----------------------------------------------------------------------------
(* EvictionGDSF (eviction_gdsf.hpp).  m_priority_set is the multiset of    *)
(* the priority entries in ascending order of their coefficient; an entry  *)
(* is [m_key, m_h_coefficient].  A coefficient is the double               *)
(* clock + estimate * (cost / total_size): the model keeps it as the exact *)
(* fraction [num, den] with den = total_size.  The division of two small   *)
(* integers rounds monotonically, so the order of two coefficients is the  *)
(* order of their fractions.  m_iterator_map maps each tracked key to its  *)
(* entry; the model keeps the set of its keys.                             *)

\* struct ConstantCost of the tests: the cost of every item
ConstantCost == 42

m_measure_cost(key, item) == ConstantCost

EvictionGDSF ==
    [m_frequency_sketch |-> CountingBloomFilter(SketchCardinality),
     m_priority_set |-> <<>>,
     m_iterator_map |-> {},
     m_clock |-> 0]

\* PriorityEntry::operator<
PriorityEntry_less(a, b) ==
    a.m_h_coefficient.num * b.m_h_coefficient.den < b.m_h_coefficient.num * a.m_h_coefficient.den

\* the coefficient that leaves the size of the item out
EvictionGDSF_get_h_coefficient_without_size(G, key, item) ==
    [num |-> G.m_clock + CountingBloomFilter_estimate(G.m_frequency_sketch, key)
                           * m_measure_cost(key, item),
     den |-> 1]

EvictionGDSF_get_h_coefficient(G, key, item) ==
    [num |-> G.m_clock * item.m_total_size
             + CountingBloomFilter_estimate(G.m_frequency_sketch, key) * m_measure_cost(key, item),
     den |-> item.m_total_size]

\* multiset::emplace: the new entry goes after the last entry that is not
\* greater than it
PrioritySet_emplace(set, entry) ==
    LET n == Cardinality({i \in 1..Len(set) : ~PriorityEntry_less(entry, set[i])})
    IN  SubSeq(set, 1, n) \o <<entry>> \o SubSeq(set, n + 1, Len(set))

\* multiset::erase(it), it being the entry m_iterator_map holds for key
PrioritySet_erase(set, key) == SelectSeq(set, LAMBDA e : e.m_key # key)

EvictionGDSF_clear(G) ==
    [G EXCEPT !.m_priority_set = <<>>,
              !.m_iterator_map = {},
              !.m_frequency_sketch = CountingBloomFilter_clear(@)]

EvictionGDSF_set_cardinality(G, cardinality) ==
    [G EXCEPT !.m_frequency_sketch = CountingBloomFilter(cardinality)]

EvictionGDSF_on_insert(G, key, item) ==
    LET G1 == [G EXCEPT !.m_frequency_sketch = CountingBloomFilter_add(@, key)]
        entry == [m_key |-> key, m_h_coefficient |-> EvictionGDSF_get_h_coefficient(G1, key, item)]
    IN  [G1 EXCEPT !.m_priority_set = PrioritySet_emplace(@, entry),
                   !.m_iterator_map = @ \cup {key}]

EvictionGDSF_on_cache_hit_assert(G, key) == key \in G.m_iterator_map

EvictionGDSF_on_cache_hit(G, key, item) ==
    EvictionGDSF_on_insert([G EXCEPT !.m_priority_set = PrioritySet_erase(@, key)], key, item)

EvictionGDSF_on_update(G, key, item) == EvictionGDSF_on_cache_hit(G, key, item)

EvictionGDSF_on_evict_assert(G, key) == key \in G.m_iterator_map

\* m_clock is a uint64_t: the assignment of the greater double truncates it
EvictionGDSF_on_evict(G, key) ==
    LET i == CHOOSE j \in 1..Len(G.m_priority_set) : G.m_priority_set[j].m_key = key
        h == G.m_priority_set[i].m_h_coefficient
    IN  [G EXCEPT !.m_clock = IF h.num > @ * h.den THEN h.num \div h.den ELSE @,
                  !.m_priority_set = PrioritySet_erase(@, key),
                  !.m_iterator_map = @ \ {key}]

\* the keys from victim_begin() to victim_end()
EvictionGDSF_victims(G) == [i \in 1..Len(G.m_priority_set) |-> G.m_priority_set[i].m_key]

----------------------------------------------------------------------------
(* Constraint policies (constraint_memory.hpp, constraint_count.hpp).      *)

ConstraintMemory(max_memory) == [m_memory |-> 0, m_maximum_memory |-> max_memory]

ConstraintMemory_clear(P) == [P EXCEPT !.m_memory = 0]

ConstraintMemory_can_add(P, item) ==
    Wrap(P.m_memory + item.m_total_size) <= P.m_maximum_memory

ConstraintMemory_can_replace(P, old_item, new_item) ==
    Wrap(Wrap(P.m_memory - old_item.m_value_size) + new_item.m_value_size) <= P.m_maximum_memory

ConstraintMemory_is_satisfied(P) == P.m_memory <= P.m_maximum_memory

ConstraintMemory_update(P, max_memory) == [P EXCEPT !.m_maximum_memory = max_memory]

ConstraintMemory_on_insert(P, item) == [P EXCEPT !.m_memory = Wrap(@ + item.m_total_size)]

\* on_update that adds the size of the new item and keeps that of the old one
ConstraintMemory_on_update_adds_only(P, old_item, new_item) ==
    [P EXCEPT !.m_memory = Wrap(@ + new_item.m_total_size)]

ConstraintMemory_on_update(P, old_item, new_item) ==
    [P EXCEPT !.m_memory = Wrap(Wrap(@ - old_item.m_value_size) + new_item.m_value_size)]

ConstraintMemory_on_evict_assert(P, item) == item.m_total_size <= P.m_memory

ConstraintMemory_on_evict(P, item) == [P EXCEPT !.m_memory = Wrap(@ - item.m_total_size)]

ConstraintCount(maximum_count) == [m_count |-> 0, m_maximum_count |-> maximum_count]

ConstraintCount_clear(P) == [P EXCEPT !.m_count = 0]

ConstraintCount_can_add_two_free(P, item) == P.m_count + 1 < P.m_maximum_count

ConstraintCount_can_add_inclusive(P, item) == P.m_count <= P.m_maximum_count

ConstraintCount_can_add(P, item) == P.m_count < P.m_maximum_count

ConstraintCount_can_replace(P, old_item, new_item) == TRUE

ConstraintCount_is_satisfied(P) == P.m_count <= P.m_maximum_count

ConstraintCount_update(P, maximum_count) == [P EXCEPT !.m_maximum_count = maximum_count]

ConstraintCount_on_insert(P, item) == [P EXCEPT !.m_count = Wrap(@ + 1)]

ConstraintCount_on_evict_assert(P, item) == P.m_count > 0

ConstraintCount_on_evict(P, item) == [P EXCEPT !.m_count = Wrap(@ - 1)]

\* The calls the cache makes on its constraint policy, whichever it is.
NewConstraintPolicy(max) ==
    IF constraintKind = "memory" THEN ConstraintMemory(max) ELSE ConstraintCount(max)
can_add(P, item) ==
    IF constraintKind = "memory" THEN ConstraintMemory_can_add(P, item)
    ELSE ConstraintCount_can_add(P, item)
can_replace(P, old_item, new_item) ==
    IF constraintKind = "memory" THEN ConstraintMemory_can_replace(P, old_item, new_item)
    ELSE ConstraintCount_can_replace(P, old_item, new_item)
is_satisfied(P) ==
    IF constraintKind = "memory" THEN ConstraintMemory_is_satisfied(P)
    ELSE ConstraintCount_is_satisfied(P)
constraint_update(P, max) ==
    IF constraintKind = "memory" THEN ConstraintMemory_update(P, max)
    ELSE ConstraintCount_update(P, max)
constraint_clear(P) ==
    IF constraintKind = "memory" THEN ConstraintMemory_clear(P) ELSE ConstraintCount_clear(P)
constraint_on_insert(P, item) ==
    IF constraintKind = "memory" THEN ConstraintMemory_on_insert(P, item)
    ELSE ConstraintCount_on_insert(P, item)
constraint_on_update(P, old_item, new_item) ==
    IF constraintKind = "memory" THEN ConstraintMemory_on_update(P, old_item, new_item) ELSE P
constraint_on_evict(P, item) ==
    IF constraintKind = "memory" THEN ConstraintMemory_on_evict(P, item)
    ELSE ConstraintCount_on_evict(P, item)
\* the assertions of the handlers: on_insert / on_update assert the maximum
constraint_on_evict_assert(P, item) ==
    IF constraintKind = "memory" THEN ConstraintMemory_on_evict_assert(P, item)
    ELSE ConstraintCount_on_evict_assert(P, item)
constraint_after_assert(P) ==
    constraintKind = "memory" => P.m_memory <= P.m_maximum_memory
Usage(P) == IF constraintKind = "memory" THEN P.m_memory ELSE P.m_count
Maximum(P) == IF constraintKind = "memory" THEN P.m_maximum_memory ELSE P.m_maximum_count

----------------------------------------------------------------------------
(* The cache object (cache.h) and contexts of a running call.              *)

EmptyMap == [k \in {} |-> 0]
Erase(d, k) == [x \in (DOMAIN d) \ {k} |-> d[x]]
Assign(d, k, item) == [x \in (DOMAIN d) \cup {k} |-> IF x = k THEN item ELSE d[x]]

\* boost rolling_mean accumulator: the samples of the window, oldest first
MeanAccumulator == <<>>
Accumulate(acc, window_size, sample) ==
    LET a == Append(acc, sample) IN IF Len(a) > window_size THEN Tail(a) ELSE a

\* The windows of the model; the default window (1000 in cache.h) is the
\* smallest of them.
Windows == 1..StatWindow

NewCache(max) ==
    [m_statistics_window_size |-> CHOOSE w \in Windows : \A x \in Windows : w <= x,
     m_insertion_policy |-> NewInsertionPolicy,
     m_eviction_policy |-> NewEvictionPolicy,
     m_constraint_policy |-> NewConstraintPolicy(max),
     m_mutex |-> [owner |-> 0, count |-> 0],
     m_data |-> EmptyMap,
     m_hit_rate_acc |-> MeanAccumulator,
     m_byte_hit_rate_acc |-> MeanAccumulator]

Ctx(c) == [c |-> c, ev |-> <<>>, st |-> "ok", ret |-> FALSE]

\* assert(cond): aborts the process unless assertions are compiled out
Check(X, cond) ==
    IF X.st = "ok" /\ ~NDEBUG /\ ~cond THEN [X EXCEPT !.st = "abort"] ELSE X

Event(X, ev, pol, key) == [X EXCEPT !.ev = Append(@, [ev |-> ev, pol |-> pol, key |-> key])]

\* The handlers each policy class declares (detail/traits.h finds them).
Declares(pol, ev) ==
    CASE pol = "insertion" ->
            insertionKind = "tinylfu" /\ ev \in {"on_cache_hit", "on_cache_miss"}
      [] pol = "eviction" ->
            ev \in {"on_insert", "on_update", "on_cache_hit", "on_evict"}
      [] pol = "constraint" ->
            \/ ev \in {"on_insert", "on_evict"}
            \/ constraintKind = "memory" /\ ev = "on_update"

\* What the list entries read during one call: the i-th dangling reference
\* (front first) yields rd[i].
RECURSIVE StaleLabel(_, _, _)
StaleLabel(keys, rd, n) ==
    IF keys = <<>> THEN <<>>
    ELSE IF Head(keys).live
         THEN <<Head(keys)>> \o StaleLabel(Tail(keys), rd, n)
         ELSE <<[key |-> rd[n], live |-> FALSE]>> \o StaleLabel(Tail(keys), rd, n + 1)

StaleView(c, rd) == [c EXCEPT !.m_eviction_policy.m_keys = StaleLabel(@, rd, 1)]

\* Between calls nothing is known of what a dangling reference reads.
Forget(c) ==
    [c EXCEPT !.m_eviction_policy.m_keys =
                  [i \in 1..Len(@) |-> IF @[i].live THEN @[i]
                                       ELSE [key |-> JunkKey, live |-> FALSE]]]

NbStale(keys) == Cardinality({i \in 1..Len(keys) : ~keys[i].live})

\* m_data.erase(it) frees the node: the reference the list holds to it
\* dangles.  Until the memory is used again (the next insertion into the
\* store) it holds the erased key or allocator data, neither of which is a
\* key of the store: JunkKey.
Dangle(keys, key) ==
    [i \in 1..Len(keys) |->
        IF keys[i].live /\ keys[i].key = key THEN [key |-> JunkKey, live |-> FALSE] ELSE keys[i]]

----------------------------------------------------------------------------
(* Event dispatch (cache.hpp: on_insert .. on_evict).                      *)

EvictionHit(X, ev, key) ==
    IF X.st # "ok" THEN X
    ELSE LET X1 == Check(Event(X, ev, "eviction", key),
                         EvictionLRU_on_cache_hit_assert(X.c.m_eviction_policy, key))
         IN  IF X1.st # "ok" THEN X1
             ELSE [X1 EXCEPT !.c.m_eviction_policy = EvictionLRU_on_cache_hit(@, key)]

Cache_on_insert(X, key, item) ==
    IF X.st # "ok" THEN X
    ELSE LET X1 == Check(Event(X, "on_insert", "eviction", key),
                         EvictionLRU_on_insert_assert(X.c.m_eviction_policy, key))
             X2 == IF X1.st # "ok" THEN X1
                   ELSE [X1 EXCEPT !.c.m_eviction_policy = EvictionLRU_on_insert(@, key)]
             X3 == IF X2.st # "ok" THEN X2
                   ELSE Event([X2 EXCEPT !.c.m_constraint_policy = constraint_on_insert(@, item)],
                              "on_insert", "constraint", key)
         IN  Check(X3, constraint_after_assert(X3.c.m_constraint_policy))

Cache_on_update(X, key, old_item, new_item) ==
    IF X.st # "ok" THEN X
    ELSE LET X1 == EvictionHit(X, "on_update", key)
             X2 == IF X1.st # "ok" \/ constraintKind # "memory" THEN X1
                   ELSE Event([X1 EXCEPT !.c.m_constraint_policy =
                                            constraint_on_update(@, old_item, new_item)],
                              "on_update", "constraint", key)
         IN  Check(X2, constraint_after_assert(X2.c.m_constraint_policy))

\* The third dispatch of on_cache_hit names the eviction policy again.
Cache_on_cache_hit(X, key, item) ==
    IF X.st # "ok" THEN X
    ELSE LET w  == X.c.m_statistics_window_size
             X0 == [X EXCEPT !.c.m_hit_rate_acc = Accumulate(@, w, 1),
                             !.c.m_byte_hit_rate_acc =
                                 Accumulate(@, w, static_cast_uint32_t(item.m_value_size))]
             X1 == IF insertionKind = "tinylfu"
                   THEN Event([X0 EXCEPT !.c.m_insertion_policy = InsertionTinyLFU_touch_item(@, key)],
                              "on_cache_hit", "insertion", key)
                   ELSE X0
             X2 == EvictionHit(X1, "on_cache_hit", key)
         IN  EvictionHit(X2, "on_cache_hit", key)

Cache_on_cache_miss(X, key) ==
    IF X.st # "ok" THEN X
    ELSE LET w  == X.c.m_statistics_window_size
             X0 == [X EXCEPT !.c.m_hit_rate_acc = Accumulate(@, w, 0),
                             !.c.m_byte_hit_rate_acc = Accumulate(@, w, 0)]
         IN  IF insertionKind = "tinylfu"
             THEN Event([X0 EXCEPT !.c.m_insertion_policy = InsertionTinyLFU_touch_item(@, key)],
                        "on_cache_miss", "insertion", key)
             ELSE X0

Cache_on_evict(X, key, item) ==
    IF X.st # "ok" THEN X
    ELSE LET X1 == Check(Event(X, "on_evict", "eviction", key),
                         EvictionLRU_on_evict_assert(X.c.m_eviction_policy, key))
             X2 == IF X1.st # "ok" THEN X1
                   ELSE [X1 EXCEPT !.c.m_eviction_policy = EvictionLRU_on_evict(@, key)]
             X3 == IF X2.st # "ok" THEN X2
                   ELSE Check(Event(X2, "on_evict", "constraint", key),
                              constraint_on_evict_assert(X2.c.m_constraint_policy, item))
         IN  IF X3.st # "ok" THEN X3
             ELSE [X3 EXCEPT !.c.m_constraint_policy = constraint_on_evict(@, item)]

\* remove(DataMapIt) erasing the entry before it notifies the policies
Cache_remove_it_erases_first(X, key) ==
    IF X.st # "ok" THEN X
    ELSE IF key \notin DOMAIN X.c.m_data THEN [X EXCEPT !.st = "abort"]
    ELSE LET X1 == Event([X EXCEPT !.c.m_data = Erase(@, key)], "erase", "store", key)
             X2 == Cache_on_evict(X1, key, X.c.m_data[key])
         IN  IF X2.st # "ok" THEN X2
             ELSE [X2 EXCEPT !.c.m_eviction_policy.m_keys = Dangle(@, key)]

\* remove(DataMapIt): an iterator whose node was already erased is invalid,
\* and erasing through it ends the process.
Cache_remove_it(X, key) ==
    IF X.st # "ok" THEN X
    ELSE IF key \notin DOMAIN X.c.m_data THEN [X EXCEPT !.st = "abort"]
    ELSE LET X1 == Cache_on_evict(X, key, X.c.m_data[key])
         IN  IF X1.st # "ok" THEN X1
             ELSE Event([X1 EXCEPT !.c.m_data = Erase(@, key),
                                   !.c.m_eviction_policy.m_keys = Dangle(@, key)],
                        "erase", "store", key)

RECURSIVE RemoveAll(_, _)
RemoveAll(X, keys_to_evict) ==
    IF keys_to_evict = <<>> THEN X
    ELSE RemoveAll(Cache_remove_it(X, Head(keys_to_evict)), Tail(keys_to_evict))

----------------------------------------------------------------------------
(* Insertion (cache.hpp: check_insert, check_replace, insert_or_update,    *)
(* insert).  A victim walk returns [st, ok, keys_to_evict]: ok says that   *)
(* the constraint copy accepts the item once keys_to_evict are gone.       *)

\* The loop of check_insert, from the victim iterator at victims[1] on.
RECURSIVE check_insert_walk(_, _, _, _, _, _)
check_insert_walk(c, victims, constraint_copy, keys_to_evict, key, item) ==
    IF victims = <<>> \/ can_add(constraint_copy, item)
    THEN [st |-> "ok", ok |-> can_add(constraint_copy, item), keys_to_evict |-> keys_to_evict]
    ELSE LET key_to_evict == Head(victims) IN
         IF key_to_evict \in DOMAIN c.m_data
         THEN IF ~should_replace(c.m_insertion_policy, key_to_evict, key)
              THEN [st |-> "ok", ok |-> FALSE, keys_to_evict |-> <<>>]
              ELSE IF ~NDEBUG /\ ~constraint_on_evict_assert(constraint_copy, c.m_data[key_to_evict])
              THEN [st |-> "abort", ok |-> FALSE, keys_to_evict |-> <<>>]
              ELSE check_insert_walk(c, Tail(victims),
                                     constraint_on_evict(constraint_copy, c.m_data[key_to_evict]),
                                     Append(keys_to_evict, key_to_evict), key, item)
         ELSE IF ~NDEBUG
              THEN [st |-> "abort", ok |-> FALSE, keys_to_evict |-> <<>>]
              ELSE check_insert_walk(c, Tail(victims), constraint_copy, keys_to_evict, key, item)

\* check_insert evicting what it collected although the item still does not fit
check_insert_commits_unconditionally(X, key, item) ==
    IF can_add(X.c.m_constraint_policy, item)
    THEN [X EXCEPT !.ret = should_add(X.c.m_insertion_policy, key)]
    ELSE LET W == check_insert_walk(X.c, EvictionLRU_victims(X.c.m_eviction_policy),
                                    X.c.m_constraint_policy, <<>>, key, item)
         IN  IF W.st # "ok" THEN [X EXCEPT !.st = W.st, !.ret = FALSE]
             ELSE [RemoveAll(X, W.keys_to_evict) EXCEPT !.ret = W.ok]

check_insert(X, key, item) ==
    IF can_add(X.c.m_constraint_policy, item)
    THEN [X EXCEPT !.ret = should_add(X.c.m_insertion_policy, key)]
    ELSE LET W == check_insert_walk(X.c, EvictionLRU_victims(X.c.m_eviction_policy),
                                    X.c.m_constraint_policy, <<>>, key, item)
         IN  IF W.st # "ok" THEN [X EXCEPT !.st = W.st, !.ret = FALSE]
             ELSE IF W.ok THEN [RemoveAll(X, W.keys_to_evict) EXCEPT !.ret = TRUE]
             ELSE [X EXCEPT !.ret = FALSE]

\* The loop of check_replace asking can_replace even after the walk met the
\* key itself.
RECURSIVE check_replace_walk_as_update(_, _, _, _, _, _, _, _)
check_replace_walk_as_update(c, victims, constraint_copy, keys_to_evict, evicted, key, old_item, new_item) ==
    LET can == can_replace(constraint_copy, old_item, new_item)
    IN  IF victims = <<>> \/ can
        THEN [st |-> "ok", ok |-> can, keys_to_evict |-> keys_to_evict]
        ELSE LET key_to_evict == Head(victims) IN
             IF key_to_evict \in DOMAIN c.m_data
             THEN IF ~should_replace(c.m_insertion_policy, key_to_evict, key)
                  THEN [st |-> "ok", ok |-> FALSE, keys_to_evict |-> <<>>]
                  ELSE IF ~NDEBUG /\ ~constraint_on_evict_assert(constraint_copy, c.m_data[key_to_evict])
                  THEN [st |-> "abort", ok |-> FALSE, keys_to_evict |-> <<>>]
                  ELSE check_replace_walk_as_update(c, Tail(victims),
                                          constraint_on_evict(constraint_copy, c.m_data[key_to_evict]),
                                          Append(keys_to_evict, key_to_evict),
                                          evicted, key, old_item, new_item)
             ELSE IF ~NDEBUG
                  THEN [st |-> "abort", ok |-> FALSE, keys_to_evict |-> <<>>]
                  ELSE check_replace_walk_as_update(c, Tail(victims), constraint_copy, keys_to_evict,
                                          evicted, key, old_item, new_item)

\* The loop of check_replace; evicted says that the walk met the key itself.
RECURSIVE check_replace_walk(_, _, _, _, _, _, _, _)
check_replace_walk(c, victims, constraint_copy, keys_to_evict, evicted, key, old_item, new_item) ==
    LET can == IF evicted THEN can_add(constraint_copy, new_item)
               ELSE can_replace(constraint_copy, old_item, new_item)
    IN  IF victims = <<>> \/ can
        THEN [st |-> "ok", ok |-> can, keys_to_evict |-> keys_to_evict]
        ELSE LET key_to_evict == Head(victims) IN
             IF key_to_evict \in DOMAIN c.m_data
             THEN IF ~should_replace(c.m_insertion_policy, key_to_evict, key)
                  THEN [st |-> "ok", ok |-> FALSE, keys_to_evict |-> <<>>]
                  ELSE IF ~NDEBUG /\ ~constraint_on_evict_assert(constraint_copy, c.m_data[key_to_evict])
                  THEN [st |-> "abort", ok |-> FALSE, keys_to_evict |-> <<>>]
                  ELSE check_replace_walk(c, Tail(victims),
                                          constraint_on_evict(constraint_copy, c.m_data[key_to_evict]),
                                          Append(keys_to_evict, key_to_evict),
                                          evicted \/ key_to_evict = key, key, old_item, new_item)
             ELSE IF ~NDEBUG
                  THEN [st |-> "abort", ok |-> FALSE, keys_to_evict |-> <<>>]
                  ELSE check_replace_walk(c, Tail(victims), constraint_copy, keys_to_evict,
                                          evicted, key, old_item, new_item)

\* check_replace that asks the insertion policy before it accepts
check_replace_asking_admission(X, key, old_item, new_item) ==
    IF can_replace(X.c.m_constraint_policy, old_item, new_item)
    THEN [X EXCEPT !.ret = should_add(X.c.m_insertion_policy, key)]
    ELSE LET W == check_replace_walk(X.c, EvictionLRU_victims(X.c.m_eviction_policy),
                                     X.c.m_constraint_policy, <<>>, FALSE, key, old_item, new_item)
         IN  IF W.st # "ok" THEN [X EXCEPT !.st = W.st, !.ret = FALSE]
             ELSE IF W.ok THEN [RemoveAll(X, W.keys_to_evict) EXCEPT !.ret = TRUE]
             ELSE [X EXCEPT !.ret = FALSE]

check_replace(X, key, old_item, new_item) ==
    IF can_replace(X.c.m_constraint_policy, old_item, new_item)
    THEN [X EXCEPT !.ret = TRUE]
    ELSE LET W == check_replace_walk(X.c, EvictionLRU_victims(X.c.m_eviction_policy),
                                     X.c.m_constraint_policy, <<>>, FALSE, key, old_item, new_item)
         IN  IF W.st # "ok" THEN [X EXCEPT !.st = W.st, !.ret = FALSE]
             ELSE IF W.ok THEN [RemoveAll(X, W.keys_to_evict) EXCEPT !.ret = TRUE]
             ELSE [X EXCEPT !.ret = FALSE]

\* insert_or_update that notifies the update but leaves the stored item as it was
insert_or_update_keeps_item(X, key, item) ==
    IF X.st # "ok" THEN X
    ELSE IF key \in DOMAIN X.c.m_data
    THEN Cache_on_update(X, key, X.c.m_data[key], item)
    ELSE Cache_on_insert([X EXCEPT !.c.m_data = Assign(@, key, item)], key, item)

insert_or_update(X, key, item) ==
    IF X.st # "ok" THEN X
    ELSE IF key \in DOMAIN X.c.m_data
    THEN Cache_on_update([X EXCEPT !.c.m_data[key] = item], key, X.c.m_data[key], item)
    ELSE Cache_on_insert([X EXCEPT !.c.m_data = Assign(@, key, item)], key, item)

Cache_insert(c, key, value) ==
    LET new_item == Item(MeasureKey(key), value, MeasureValue(value))
        X == Ctx(c)
    IN  IF key \in DOMAIN c.m_data
        THEN LET R == check_replace(X, key, c.m_data[key], new_item)
             IN  IF R.st = "ok" /\ R.ret
                 THEN [insert_or_update(R, key, new_item) EXCEPT !.ret = TRUE]
                 ELSE [R EXCEPT !.ret = FALSE]
        ELSE LET R == check_insert(X, key, new_item)
             IN  IF R.st = "ok" /\ R.ret
                 THEN [Cache_on_insert([R EXCEPT !.c.m_data = Assign(@, key, new_item)],
                                       key, new_item) EXCEPT !.ret = TRUE]
                 ELSE [R EXCEPT !.ret = FALSE]

----------------------------------------------------------------------------
(* Lookup, removal and the other public operations (cache.hpp).            *)

NotFound == 0     \* std::nullopt

Cache_contains_observing(c, key) ==
    IF key \in DOMAIN c.m_data
    THEN [Cache_on_cache_hit(Ctx(c), key, c.m_data[key]) EXCEPT !.ret = TRUE]
    ELSE [Cache_on_cache_miss(Ctx(c), key) EXCEPT !.ret = FALSE]

Cache_contains(c, key) == [Ctx(c) EXCEPT !.ret = key \in DOMAIN c.m_data]

Cache_find(c, key) ==
    IF key \in DOMAIN c.m_data
    THEN [Cache_on_cache_hit(Ctx(c), key, c.m_data[key]) EXCEPT !.ret = c.m_data[key].m_value]
    ELSE [Cache_on_cache_miss(Ctx(c), key) EXCEPT !.ret = NotFound]

Cache_remove(c, key) ==
    IF key \in DOMAIN c.m_data
    THEN [Cache_remove_it(Ctx(c), key) EXCEPT !.ret = TRUE]
    ELSE [Ctx(c) EXCEPT !.ret = FALSE]

Cache_clear(c) ==
    LET X == Ctx(c)
        erased == SetToSeq(DOMAIN c.m_data)
    IN  [X EXCEPT !.c.m_data = EmptyMap,
                  !.c.m_hit_rate_acc = MeanAccumulator,
                  !.c.m_byte_hit_rate_acc = MeanAccumulator,
                  !.c.m_insertion_policy =
                        IF insertionKind = "tinylfu" THEN InsertionTinyLFU_clear(@) ELSE @,
                  !.c.m_eviction_policy = EvictionLRU_clear(@),
                  !.c.m_constraint_policy = constraint_clear(@),
                  !.ev = [i \in 1..Len(erased) |->
                             [ev |-> "erase", pol |-> "store", key |-> erased[i]]]
                         \o <<[ev |-> "clear", pol |-> "insertion", key |-> JunkKey],
                              [ev |-> "clear", pol |-> "eviction", key |-> JunkKey],
                              [ev |-> "clear", pol |-> "constraint", key |-> JunkKey]>>]

\* retain: the store is walked in its iteration order; order lists the
\* entries the predicate rejects, in that order.
Cache_retain_first_only(c, order) ==
    IF order = <<>> THEN Ctx(c) ELSE Cache_remove_it(Ctx(c), Head(order))

Cache_retain(c, order) == RemoveAll(Ctx(c), order)

\* for_each(unary_function): the function is shown every entry and can
\* change none
Cache_for_each(c) == [Ctx(c) EXCEPT !.ret = TRUE]

\* The loop of update_constraint: victim_begin() is read again after every
\* removal; a first victim that is not in the store is never removed, so
\* without assertions the loop does not end.
RECURSIVE update_constraint_loop(_, _)
update_constraint_loop(X, fuel) ==
    IF X.st # "ok" THEN X
    ELSE LET victims == EvictionLRU_victims(X.c.m_eviction_policy) IN
         IF victims = <<>> \/ is_satisfied(X.c.m_constraint_policy) THEN X
         ELSE IF Head(victims) \in DOMAIN X.c.m_data
              THEN IF fuel = 0 THEN [X EXCEPT !.st = "hang"]
                   ELSE update_constraint_loop(Cache_remove_it(X, Head(victims)), fuel - 1)
              ELSE [X EXCEPT !.st = IF NDEBUG THEN "hang" ELSE "abort"]

\* update_constraint without its eviction loop
Cache_update_constraint_no_eviction(c, max) ==
    [Ctx(c) EXCEPT !.c.m_constraint_policy = constraint_update(@, max)]

Cache_update_constraint(c, max) ==
    LET X == [Ctx(c) EXCEPT !.c.m_constraint_policy = constraint_update(@, max)]
        Y == update_constraint_loop(X, Cardinality(DOMAIN c.m_data))
    IN  Check(Y, is_satisfied(Y.c.m_constraint_policy))

\* import that leaves out the items the insertion policy does not admit
RECURSIVE import_loop_asking_admission(_, _)
import_loop_asking_admission(X, collection) ==
    IF X.st # "ok" \/ collection = <<>> THEN X
    ELSE LET key == Head(collection)[1]
             value == Head(collection)[2]
             item == Item(MeasureKey(key), value, MeasureValue(value))
         IN  IF ~can_add(X.c.m_constraint_policy, item) THEN X
             ELSE IF ~should_add(X.c.m_insertion_policy, key)
             THEN import_loop_asking_admission(X, Tail(collection))
             ELSE import_loop_asking_admission(insert_or_update(X, key, item), Tail(collection))

RECURSIVE import_loop_skipping(_, _)
import_loop_skipping(X, collection) ==
    IF X.st # "ok" \/ collection = <<>> THEN X
    ELSE LET key == Head(collection)[1]
             value == Head(collection)[2]
             item == Item(MeasureKey(key), value, MeasureValue(value))
         IN  IF ~can_add(X.c.m_constraint_policy, item)
             THEN import_loop_skipping(X, Tail(collection))
             ELSE import_loop_skipping(insert_or_update(X, key, item), Tail(collection))

\* import: the constructor's loop over the collection
RECURSIVE import_loop(_, _)
import_loop(X, collection) ==
    IF X.st # "ok" \/ collection = <<>> THEN X
    ELSE LET key == Head(collection)[1]
             value == Head(collection)[2]
             item == Item(MeasureKey(key), value, MeasureValue(value))
         IN  IF ~can_add(X.c.m_constraint_policy, item) THEN X
             ELSE import_loop(insert_or_update(X, key, item), Tail(collection))

Cache_import(c, collection) == import_loop(Ctx(c), collection)

Cache_set_statistics_window_size(c, window_size) ==
    [Ctx(c) EXCEPT !.c.m_statistics_window_size = window_size,
                   !.c.m_hit_rate_acc = MeanAccumulator,
                   !.c.m_byte_hit_rate_acc = MeanAccumulator]

\* rolling_mean as the pair <<sum, number of samples>>
RollingMean(acc) == <<SumOver(DOMAIN acc, acc), Len(acc)>>
Cache_hit_rate(c) == RollingMean(c.m_hit_rate_acc)
Cache_byte_hit_rate(c) == RollingMean(c.m_byte_hit_rate_acc)
Cache_number_of_items(c) == Cardinality(DOMAIN c.m_data)

\* swap that leaves each constraint policy where it was
Cache_swap_without_constraint_policy(me, other) ==
    [me    |-> [other EXCEPT !.m_mutex = me.m_mutex,
                             !.m_constraint_policy = me.m_constraint_policy],
     other |-> [me EXCEPT !.m_mutex = other.m_mutex,
                          !.m_constraint_policy = other.m_constraint_policy]]

\* swap: the members exchanged, in the order of the source; the mutexes stay
Cache_swap(me, other) ==
    [me    |-> [other EXCEPT !.m_mutex = me.m_mutex],
     other |-> [me EXCEPT !.m_mutex = other.m_mutex]]

----------------------------------------------------------------------------
(* The program: one cache object "a" used by one thread.  Every action is  *)
(* one call of a public operation, from its start to its return.           *)

NoCall == [op |-> "init", key |-> JunkKey, value |-> 0, ret |-> FALSE, ev |-> <<>>]

\* The readings of the dangling references of cache c during one call.
Readings(c) == [1..NbStale(c.m_eviction_policy.m_keys) -> StaleReads]

\* The keys the insertion policy has been shown by on_cache_hit and
\* on_cache_miss since its construction or its last clear().
Observed(seen, ev) ==
    IF \E i \in 1..Len(ev) : ev[i].pol = "insertion" /\ ev[i].ev = "clear" THEN {}
    ELSE seen \cup {ev[i].key : i \in {j \in 1..Len(ev) :
                                        /\ ev[j].pol = "insertion"
                                        /\ ev[j].ev \in {"on_cache_hit", "on_cache_miss"}}}

\* The call ends: its result is recorded, the references that dangle now
\* are unknown again.  A call that does not return leaves the process dead.
Return(id, X, op, key, value) ==
    /\ NbStale(X.c.m_eviction_policy.m_keys) <= MaxStale
    /\ status' = X.st
    /\ cache' = IF X.st = "ok" THEN [cache EXCEPT ![id] = Forget(X.c)] ELSE cache
    /\ last' = [op |-> op, key |-> key, value |-> value, ret |-> X.ret, ev |-> X.ev]
    /\ observed' = Observed(observed, X.ev)
    /\ UNCHANGED <<insertionKind, constraintKind, NDEBUG, threads, unit>>

MaxImport == 1
Collections ==
    UNION {[1..n -> Keys \X Values] : n \in 0..MaxImport}

Init ==
    /\ insertionKind = "always"
    /\ constraintKind \in {"memory", "count"}
    /\ NDEBUG \in BOOLEAN
    /\ status = "ok"
    /\ \E max \in Capacities : cache = [id \in {"a"} |-> NewCache(max)]
    /\ last = NoCall
    /\ observed = {}
    /\ unit = <<>>
    /\ threads = <<>>

\* Cache(collection, args): the importing constructor
Import(id) ==
    /\ status = "ok" /\ last.op = "init"
    /\ \E collection \in Collections :
          Return(id, Cache_import(cache[id], collection), "import", JunkKey, Len(collection))

Insert(id, K) ==
    /\ status = "ok"
    /\ \E key \in K, value \in Values, rd \in Readings(cache[id]) :
          Return(id, Cache_insert(StaleView(cache[id], rd), key, value), "insert", key, value)

Find(id, K) ==
    /\ status = "ok"
    /\ \E key \in K :
          Return(id, Cache_find(cache[id], key), "find", key, 0)

Contains(id) ==
    /\ status = "ok"
    /\ \E key \in Keys :
          Return(id, Cache_contains(cache[id], key), "contains", key, 0)

ContainsOf(id, K) ==
    /\ status = "ok"
    /\ \E key \in K :
          Return(id, Cache_contains(cache[id], key), "contains", key, 0)

Remove(id) ==
    /\ status = "ok"
    /\ \E key \in Keys, rd \in Readings(cache[id]) :
          Return(id, Cache_remove(StaleView(cache[id], rd), key), "remove", key, 0)

Clear(id) ==
    /\ status = "ok"
    /\ Return(id, Cache_clear(cache[id]), "clear", JunkKey, 0)

\* retain(predicate): order is the rejected entries in the iteration order
\* of the store, which the hash table fixes.
Orders(S) == {o \in UNION {[1..n -> S] : n \in 0..Cardinality(S)} :
                 \A i, j \in 1..Len(o) : i # j => o[i] # o[j]}

Retain(id) ==
    /\ status = "ok"
    /\ \E order \in Orders(DOMAIN cache[id].m_data), rd \in Readings(cache[id]) :
          Return(id, Cache_retain(StaleView(cache[id], rd), order), "retain", JunkKey, Len(order))

UpdateConstraint(id) ==
    /\ status = "ok"
    /\ \E max \in Capacities, rd \in Readings(cache[id]) :
          Return(id, Cache_update_constraint(StaleView(cache[id], rd), max),
                 "update_constraint", JunkKey, max)

SetStatisticsWindowSize(id) ==
    /\ status = "ok"
    /\ \E window_size \in Windows :
          /\ Return(id, Cache_set_statistics_window_size(cache[id], window_size),
                    "statistics_window_size", JunkKey, window_size)

Next ==
    \/ Import("a")
    \/ Insert("a", Keys)
    \/ Find("a", Keys)
    \/ Contains("a")
    \/ Remove("a")
    \/ Clear("a")
    \/ Retain("a")
    \/ UpdateConstraint("a")
    \/ SetStatisticsWindowSize("a")

Spec == Init /\ [][Next]_vars

----------------------------------------------------------------------------
(* The program that only inserts, looks up and clears, with either         *)
(* insertion policy, in a build without assertions.                        *)

InitInsert ==
    /\ insertionKind \in {"always", "tinylfu"}
    /\ constraintKind \in {"memory", "count"}
    /\ NDEBUG = TRUE
    /\ status = "ok"
    /\ \E max \in Capacities : cache = [id \in {"a"} |-> NewCache(max)]
    /\ last = NoCall
    /\ observed = {}
    /\ unit = <<>>
    /\ threads = <<>>

NextInsert ==
    \/ Insert("a", InsertKeys)
    \/ Find("a", InsertKeys)
    \/ ContainsOf("a", InsertKeys)
    \/ Clear("a")

SpecInsert == InitInsert /\ [][NextInsert]_vars

----------------------------------------------------------------------------
(* The program on a cache constructed with a maximum of zero, with keys    *)
(* and values of every measured size, the size 0 included.                 *)

MeasuredKeys == InsertKeys \cup {EmptyKey}
MeasuredValues == Values \cup {EmptyValue}

InsertMeasured(id) ==
    /\ status = "ok"
    /\ \E key \in MeasuredKeys, value \in MeasuredValues, rd \in Readings(cache[id]) :
          Return(id, Cache_insert(StaleView(cache[id], rd), key, value), "insert", key, value)

InitZero ==
    /\ insertionKind \in {"always", "tinylfu"}
    /\ constraintKind \in {"memory", "count"}
    /\ NDEBUG \in BOOLEAN
    /\ status = "ok"
    /\ cache = [id \in {"a"} |-> NewCache(0)]
    /\ last = NoCall
    /\ observed = {}
    /\ unit = <<>>
    /\ threads = <<>>

NextZero ==
    \/ InsertMeasured("a")
    \/ Find("a", MeasuredKeys)

SpecZero == InitZero /\ [][NextZero]_vars

----------------------------------------------------------------------------
(* The program that constructs its cache from a collection and only looks  *)
(* up afterwards. unit is the collection the cache was constructed from.   *)

MaxImported == 3
ImportedCollections ==
    UNION {[1..n -> Keys \X Values] : n \in 0..MaxImported}

InitImport ==
    /\ insertionKind \in {"always", "tinylfu"}
    /\ constraintKind \in {"memory", "count"}
    /\ NDEBUG \in BOOLEAN
    /\ status = "ok"
    /\ \E max \in Capacities : cache = [id \in {"a"} |-> NewCache(max)]
    /\ last = NoCall
    /\ observed = {}
    /\ unit = <<>>
    /\ threads = <<>>

\* Cache(collection, args)
ImportOf(id) ==
    /\ status = "ok" /\ last.op = "init"
    /\ \E collection \in ImportedCollections :
          LET X == Cache_import(cache[id], collection)
          IN  /\ status' = X.st
              /\ cache' = IF X.st = "ok" THEN [cache EXCEPT ![id] = X.c] ELSE cache
              /\ last' = [op |-> "import", key |-> JunkKey, value |-> Len(collection),
                          ret |-> X.ret, ev |-> X.ev]
              /\ observed' = Observed(observed, X.ev)
              /\ unit' = collection
              /\ UNCHANGED <<insertionKind, constraintKind, NDEBUG, threads>>

NextImport ==
    \/ ImportOf("a")
    \/ Find("a", Keys)
    \/ ContainsOf("a", Keys)

SpecImport == InitImport /\ [][NextImport]_vars

----------------------------------------------------------------------------
(* The program with values of every sample width: the huge value is one    *)
(* whose size no uint32_t holds.                                           *)

SampledValues == Values \cup {HugeValue}

InsertSampled(id) ==
    /\ status = "ok"
    /\ \E key \in Keys, value \in SampledValues, rd \in Readings(cache[id]) :
          Return(id, Cache_insert(StaleView(cache[id], rd), key, value), "insert", key, value)

ForEach(id) ==
    /\ status = "ok"
    /\ Return(id, Cache_for_each(cache[id]), "for_each", JunkKey, 0)

NextStats ==
    \/ InsertSampled("a")
    \/ Find("a", Keys)
    \/ ContainsOf("a", Keys)
    \/ Remove("a")
    \/ Retain("a")
    \/ ForEach("a")
    \/ UpdateConstraint("a")

SpecStats == Init /\ [][NextStats]_vars

----------------------------------------------------------------------------
(* Thread-safe mode (ThreadSafe = true): every public operation holds the  *)
(* recursive mutex of its cache from its first statement to its return.    *)
(* A thread's call is a sequence of steps: it takes the guard, looks the   *)
(* key up (the operations that start with m_data.find), runs the rest of   *)
(* the body, and releases the guard when the call returns.                 *)

NbThreads == 2
Threads == 1..NbThreads

IdleThread ==
    [pc |-> "idle", op |-> "none", me |-> "a", other |-> "a",
     key |-> JunkKey, value |-> 0, it |-> "none", ret |-> <<>>]

\* std::recursive_mutex
Mutex_lock(m, t) == [owner |-> t, count |-> m.count + 1]
Mutex_unlock(m) == IF m.count <= 1 THEN [owner |-> 0, count |-> 0] ELSE [m EXCEPT !.count = @ - 1]

\* lock() of a cache that is not thread-safe: a guard that owns no mutex
Cache_lock_without_mutex(c, t) == TRUE

\* lock() on a mutex that its owner cannot take again
Cache_lock_non_recursive(c, t) == c.m_mutex.count = 0

\* lock(): LockGuard guard{m_mutex} returns once the mutex is free or
\* already owned by the calling thread
Cache_lock(c, t) == c.m_mutex.count = 0 \/ c.m_mutex.owner = t

LookupOps == {"find", "insert", "remove", "contains"}
Holding(t) == threads[t].pc \in {"lookup", "body", "unlock"}

\* The thread enters an operation that starts with LockGuard guard(lock()).
Lock(t) ==
    /\ status = "ok" /\ threads[t].pc = "idle"
    /\ Cache_lock(cache["a"], t)
    /\ \E call \in
            [op : {"find", "remove", "contains"}, key : Keys, value : {0}]
            \cup [op : {"insert"}, key : Keys, value : Values]
            \cup [op : {"update_constraint"}, key : {JunkKey}, value : Capacities]
            \cup [op : {"clear", "number_of_items"}, key : {JunkKey}, value : {0}] :
          threads' = [threads EXCEPT ![t] =
                         [IdleThread EXCEPT !.pc = IF call.op \in LookupOps THEN "lookup" ELSE "body",
                                            !.op = call.op, !.key = call.key, !.value = call.value]]
    /\ cache' = [cache EXCEPT !["a"].m_mutex = Mutex_lock(@, t)]
    /\ UNCHANGED <<insertionKind, constraintKind, NDEBUG, observed, unit, status, last>>

\* auto it = m_data.find(key)
Lookup(t) ==
    /\ status = "ok" /\ threads[t].pc = "lookup"
    /\ threads' = [threads EXCEPT ![t].pc = "body",
                                  ![t].it = IF threads[t].key \in DOMAIN cache["a"].m_data
                                            THEN "found" ELSE "end"]
    /\ UNCHANGED <<cache, insertionKind, constraintKind, NDEBUG, observed, unit, status, last>>

\* The rest of the body, up to the return statement.  An iterator that the
\* store no longer backs (its entry was erased or inserted since the lookup)
\* is invalid, and the call does not survive its use.
CallBody(c, th) ==
    CASE th.op = "find" -> Cache_find(c, th.key)
      [] th.op = "insert" -> Cache_insert(c, th.key, th.value)
      [] th.op = "remove" -> Cache_remove(c, th.key)
      [] th.op = "contains" -> Cache_contains(c, th.key)
      [] th.op = "clear" -> Cache_clear(c)
      [] th.op = "update_constraint" -> Cache_update_constraint(c, th.value)
      [] th.op = "number_of_items" -> [Ctx(c) EXCEPT !.ret = Cache_number_of_items(c)]

Body(t) ==
    /\ status = "ok" /\ threads[t].pc = "body"
    /\ LET th == threads[t]
           valid == th.op \in LookupOps => ((th.it = "found") <=> (th.key \in DOMAIN cache["a"].m_data))
       IN  \E rd \in Readings(cache["a"]) :
              LET X == CallBody(StaleView(cache["a"], rd), th) IN
              /\ NbStale(X.c.m_eviction_policy.m_keys) <= MaxStale
              /\ status' = IF valid THEN X.st ELSE "abort"
              /\ cache' = IF valid /\ X.st = "ok" THEN [cache EXCEPT !["a"] = Forget(X.c)] ELSE cache
              /\ threads' = [threads EXCEPT ![t].pc = "unlock", ![t].ret = <<X.ret>>,
                                            ![t].value = 0, ![t].it = "none"]
    /\ UNCHANGED <<insertionKind, constraintKind, NDEBUG, observed, unit, last>>

\* The call returns: the guard is destroyed.
Unlock(t) ==
    /\ status = "ok" /\ threads[t].pc = "unlock"
    /\ cache' = [cache EXCEPT !["a"].m_mutex = Mutex_unlock(@)]
    /\ threads' = [threads EXCEPT ![t] = IdleThread]
    /\ UNCHANGED <<insertionKind, constraintKind, NDEBUG, observed, unit, status, last>>

\* hit_rate() and byte_hit_rate() read their accumulator and take no guard.
ReadStatistics(t) ==
    /\ status = "ok" /\ threads[t].pc = "idle"
    /\ \E op \in {"hit_rate", "byte_hit_rate"} :
          threads' = [threads EXCEPT ![t] = [IdleThread EXCEPT !.pc = "reading", !.op = op]]
    /\ UNCHANGED <<cache, insertionKind, constraintKind, NDEBUG, observed, unit, status, last>>

\* What rolling_mean can return: the mean of any window the accumulator may
\* hold.  A read that races with an update returns any of them.
Means == {<<sum, n>> : sum \in 0..(2 * StatWindow), n \in 0..StatWindow}

ReturnStatistics(t) ==
    /\ status = "ok" /\ threads[t].pc = "reading"
    /\ LET acc == IF threads[t].op = "hit_rate" THEN cache["a"].m_hit_rate_acc
                  ELSE cache["a"].m_byte_hit_rate_acc
           raced == \E u \in Threads \ {t} : threads[u].op = "find" /\ threads[u].pc = "body"
       IN  \E mean \in (IF raced THEN Means ELSE {RollingMean(acc)}) :
              threads' = [threads EXCEPT ![t] = IdleThread]
    /\ UNCHANGED <<cache, insertionKind, constraintKind, NDEBUG, observed, unit, status, last>>

InitMT ==
    /\ insertionKind = "always"
    /\ constraintKind \in {"memory", "count"}
    /\ NDEBUG = TRUE
    /\ status = "ok"
    /\ \E max \in Capacities : cache = [id \in {"a"} |-> NewCache(max)]
    /\ last = NoCall
    /\ observed = {}
    /\ unit = <<>>
    /\ threads = [t \in Threads |-> IdleThread]

NextMT ==
    \E t \in Threads :
        \/ Lock(t)
        \/ Lookup(t)
        \/ Body(t)
        \/ Unlock(t)
        \/ ReadStatistics(t)
        \/ ReturnStatistics(t)

SpecMT == InitMT /\ [][NextMT]_vars

----------------------------------------------------------------------------
(* Two thread-safe caches "a" and "b".  Threads swap them in either        *)
(* direction while other threads insert into them and look keys up; the    *)
(* statistics window of "b" was set after its construction.                *)

MaxSwapKey == 1
SwapKeys == 1..MaxSwapKey

Other(id) == IF id = "a" THEN "b" ELSE "a"

\* lock(); other.lock(): the second guard is waited for with the first held
std_lock_second_blocking(free) == IF free THEN "locked" ELSE "wait"

\* std::lock(my_guard, other_guard), the step after one guard was locked:
\* try_lock the other one; if that fails, unlock the first and start again
std_lock_second(free) == IF free THEN "locked" ELSE "back_off"

\* swap(other) begins: lock_pair builds the two deferred guards.  The odd
\* threads call a.swap(b), the even ones b.swap(a).
SwapCall(t) ==
    /\ status = "ok" /\ threads[t].pc = "idle"
    /\ LET me == IF t % 2 = 1 THEN "a" ELSE "b" IN
          threads' = [threads EXCEPT ![t] =
                         [IdleThread EXCEPT !.pc = "lock_first", !.op = "swap",
                                            !.me = me, !.other = Other(me), !.it = me]]
    /\ UNCHANGED <<cache, insertionKind, constraintKind, NDEBUG, observed, unit, status, last>>

\* std::lock blocks on the guard it starts with (threads[t].it)
LockFirst(t) ==
    /\ status = "ok" /\ threads[t].pc = "lock_first"
    /\ Cache_lock(cache[threads[t].it], t)
    /\ cache' = [cache EXCEPT ![threads[t].it].m_mutex = Mutex_lock(@, t)]
    /\ threads' = [threads EXCEPT ![t].pc = "lock_second"]
    /\ UNCHANGED <<insertionKind, constraintKind, NDEBUG, observed, unit, status, last>>

\* ... and tries the other guard.  After a failure the implementation
\* starts again with either guard.
LockSecond(t) ==
    /\ status = "ok" /\ threads[t].pc = "lock_second"
    /\ LET first == threads[t].it
           second == Other(first)
           outcome == std_lock_second(Cache_lock(cache[second], t))
       IN  CASE outcome = "locked" ->
                  /\ cache' = [cache EXCEPT ![second].m_mutex = Mutex_lock(@, t)]
                  /\ threads' = [threads EXCEPT ![t].pc = "swap"]
             [] outcome = "back_off" ->
                  /\ cache' = [cache EXCEPT ![first].m_mutex = Mutex_unlock(@)]
                  /\ \E next \in DOMAIN cache :
                        threads' = [threads EXCEPT ![t].pc = "lock_first", ![t].it = next]
             [] outcome = "wait" ->
                  /\ FALSE
                  /\ UNCHANGED <<cache, threads>>
    /\ UNCHANGED <<insertionKind, constraintKind, NDEBUG, observed, unit, status, last>>

\* With both guards held the members are exchanged; the guards are released
\* when swap returns.
SwapBody(t) ==
    /\ status = "ok" /\ threads[t].pc = "swap"
    /\ LET me == threads[t].me
           other == threads[t].other
           S == Cache_swap(cache[me], cache[other])
       IN  cache' = [cache EXCEPT ![me] = [S.me EXCEPT !.m_mutex = Mutex_unlock(@)],
                                  ![other] = [S.other EXCEPT !.m_mutex = Mutex_unlock(@)]]
    /\ threads' = [threads EXCEPT ![t] = IdleThread]
    /\ last' = [NoCall EXCEPT !.op = "swap"]
    /\ UNCHANGED <<insertionKind, constraintKind, NDEBUG, observed, unit, status>>

\* A call of another thread on one cache, from taking the guard to its return.
OtherCall(id) ==
    /\ status = "ok"
    /\ cache[id].m_mutex.count = 0
    /\ \E call \in [op : {"find"}, key : SwapKeys, value : {0}]
                   \cup [op : {"insert"}, key : SwapKeys, value : Values] :
          LET X == CallBody(cache[id], [IdleThread EXCEPT !.op = call.op, !.key = call.key,
                                                          !.value = call.value])
          IN  /\ X.st = "ok"
              /\ NbStale(X.c.m_eviction_policy.m_keys) = 0
              /\ cache' = [cache EXCEPT ![id] = X.c]
              /\ last' = [NoCall EXCEPT !.op = "other"]
    /\ UNCHANGED <<insertionKind, constraintKind, NDEBUG, observed, unit, status, threads>>

InitSwap ==
    /\ insertionKind = "always"
    /\ constraintKind \in {"memory", "count"}
    /\ NDEBUG = TRUE
    /\ status = "ok"
    /\ \E max \in [{"a", "b"} -> Capacities], window_size \in Windows :
          cache = [id \in {"a", "b"} |->
                      IF id = "a" THEN NewCache(max[id])
                      ELSE Cache_set_statistics_window_size(NewCache(max[id]), window_size).c]
    /\ last = NoCall
    /\ observed = {}
    /\ unit = <<>>
    /\ threads = [t \in Threads |-> IdleThread]

NextSwap ==
    \/ \E t \in Threads : SwapCall(t) \/ LockFirst(t) \/ LockSecond(t) \/ SwapBody(t)
    \/ \E id \in {"a", "b"} : OtherCall(id)

SpecSwap == InitSwap /\ [][NextSwap]_vars

----------------------------------------------------------------------------
(* Callbacks in thread-safe mode.  for_each and retain hold the guard of   *)
(* the cache while they walk the store and call the function they were     *)
(* given for every entry.  The function may call contains or               *)
(* number_of_items on the same cache: that call takes the guard a second   *)
(* time on the same thread and releases it when it returns.  A thread is   *)
(* [pc, op, key, value, rest, nested, ret]: rest is the entries the walk   *)
(* has yet to visit, nested the operation the callback runs.               *)

IdleCaller ==
    [pc |-> "idle", op |-> "none", key |-> JunkKey, value |-> 0,
     rest |-> <<>>, nested |-> "none", ret |-> <<>>]

Walking(t) == threads[t].pc \in {"walk", "callback", "nested", "returning"}

\* The thread enters a public operation: LockGuard guard(lock()).  A walk
\* visits the store in its iteration order, which is any order.
Enter(t) ==
    /\ status = "ok" /\ threads[t].pc = "idle"
    /\ Cache_lock(cache["a"], t)
    /\ \E call \in
            [op : {"contains"}, key : Keys, value : {0}, rest : {<<>>}]
            \cup [op : {"insert"}, key : Keys, value : Values, rest : {<<>>}]
            \cup [op : {"number_of_items"}, key : {JunkKey}, value : {0}, rest : {<<>>}]
            \cup [op : {"for_each", "retain"}, key : {JunkKey}, value : {0},
                  rest : {o \in Orders(DOMAIN cache["a"].m_data) :
                             Len(o) = Cardinality(DOMAIN cache["a"].m_data)}] :
          threads' = [threads EXCEPT ![t] =
                         [IdleCaller EXCEPT !.pc = IF call.op \in {"for_each", "retain"}
                                                   THEN "walk" ELSE "body",
                                            !.op = call.op, !.key = call.key,
                                            !.value = call.value, !.rest = call.rest]]
    /\ cache' = [cache EXCEPT !["a"].m_mutex = Mutex_lock(@, t)]
    /\ UNCHANGED <<insertionKind, constraintKind, NDEBUG, observed, unit, status, last>>

\* The body of an operation that calls no function of its caller.
Operate(t) ==
    /\ status = "ok" /\ threads[t].pc = "body"
    /\ \E rd \in Readings(cache["a"]) :
          LET X == CallBody(StaleView(cache["a"], rd), threads[t]) IN
          /\ NbStale(X.c.m_eviction_policy.m_keys) <= MaxStale
          /\ status' = X.st
          /\ cache' = IF X.st = "ok" THEN [cache EXCEPT !["a"] = Forget(X.c)] ELSE cache
          /\ threads' = [threads EXCEPT ![t].pc = "unlock", ![t].ret = <<X.ret>>]
    /\ UNCHANGED <<insertionKind, constraintKind, NDEBUG, observed, unit, last>>

\* The walk reaches its next entry and calls the function with it.
Visit(t) ==
    /\ status = "ok" /\ threads[t].pc = "walk" /\ threads[t].rest # <<>>
    /\ threads' = [threads EXCEPT ![t].pc = "callback", ![t].key = Head(threads[t].rest)]
    /\ UNCHANGED <<cache, insertionKind, constraintKind, NDEBUG, observed, unit, status, last>>

\* The function calls contains or number_of_items on the cache it is shown:
\* LockGuard guard(lock()) on the thread that holds the guard of the walk.
CallbackLock(t) ==
    /\ status = "ok" /\ threads[t].pc = "callback"
    /\ Cache_lock(cache["a"], t)
    /\ \E nested \in {"contains", "number_of_items"} :
          threads' = [threads EXCEPT ![t].pc = "nested", ![t].nested = nested]
    /\ cache' = [cache EXCEPT !["a"].m_mutex = Mutex_lock(@, t)]
    /\ UNCHANGED <<insertionKind, constraintKind, NDEBUG, observed, unit, status, last>>

\* The nested operation returns: its guard is destroyed.
CallbackUnlock(t) ==
    /\ status = "ok" /\ threads[t].pc = "nested"
    /\ threads' = [threads EXCEPT
                      ![t].pc = "returning",
                      ![t].ret = IF threads[t].nested = "contains"
                                 THEN <<Cache_contains(cache["a"], threads[t].key).ret>>
                                 ELSE <<Cache_number_of_items(cache["a"])>>]
    /\ cache' = [cache EXCEPT !["a"].m_mutex = Mutex_unlock(@)]
    /\ UNCHANGED <<insertionKind, constraintKind, NDEBUG, observed, unit, status, last>>

\* The function returns, whether it called the cache or not.  retain
\* removes the entry its predicate rejected: remove(it++).
CallbackReturn(t) ==
    /\ status = "ok" /\ threads[t].pc \in {"callback", "returning"}
    /\ \E keep \in (IF threads[t].op = "retain" THEN BOOLEAN ELSE {TRUE}), rd \in Readings(cache["a"]) :
          LET X == IF keep THEN Ctx(StaleView(cache["a"], rd))
                   ELSE Cache_remove_it(Ctx(StaleView(cache["a"], rd)), threads[t].key)
          IN  /\ NbStale(X.c.m_eviction_policy.m_keys) <= MaxStale
              /\ status' = X.st
              /\ cache' = IF X.st = "ok" THEN [cache EXCEPT !["a"] = Forget(X.c)] ELSE cache
    /\ threads' = [threads EXCEPT ![t].pc = "walk", ![t].rest = Tail(@),
                                  ![t].key = JunkKey, ![t].nested = "none"]
    /\ UNCHANGED <<insertionKind, constraintKind, NDEBUG, observed, unit, last>>

\* The walk is over.
WalkEnd(t) ==
    /\ status = "ok" /\ threads[t].pc = "walk" /\ threads[t].rest = <<>>
    /\ threads' = [threads EXCEPT ![t].pc = "unlock"]
    /\ UNCHANGED <<cache, insertionKind, constraintKind, NDEBUG, observed, unit, status, last>>

\* The operation returns: the guard is destroyed.
Leave(t) ==
    /\ status = "ok" /\ threads[t].pc = "unlock"
    /\ cache' = [cache EXCEPT !["a"].m_mutex = Mutex_unlock(@)]
    /\ threads' = [threads EXCEPT ![t] = IdleCaller]
    /\ UNCHANGED <<insertionKind, constraintKind, NDEBUG, observed, unit, status, last>>

InitCallback ==
    /\ insertionKind = "always"
    /\ constraintKind = "count"
    /\ NDEBUG = TRUE
    /\ status = "ok"
    /\ \E max \in Capacities : cache = [id \in {"a"} |-> NewCache(max)]
    /\ last = NoCall
    /\ observed = {}
    /\ unit = <<>>
    /\ threads = [t \in Threads |-> IdleCaller]

NextCallback ==
    \E t \in Threads :
        \/ Enter(t)
        \/ Operate(t)
        \/ Visit(t)
        \/ CallbackLock(t)
        \/ CallbackUnlock(t)
        \/ CallbackReturn(t)
        \/ WalkEnd(t)
        \/ Leave(t)

SpecCallback == InitCallback /\ [][NextCallback]_vars

----------------------------------------------------------------------------
(* The eviction policies driven directly: a harness owns the keys and      *)
(* calls the handlers of one policy object, as the cache does and as the   *)
(* unit tests do.  unit.policy is the object, unit.uses the tracked keys   *)
(* from the least recently used to the most recently used.  The keys of    *)
(* the harness outlive the policy, so an entry the policy failed to        *)
(* unlink still reads as its key; it is no longer the node of that key.    *)

MaxLRUKey == 3
LRUKeys == 1..MaxLRUKey
MaxRetired == 1

\* the entries of keys that m_nodes no longer maps are nodes of no key
Retire(E) ==
    [E EXCEPT !.m_keys = [i \in 1..Len(@) |->
                             IF @[i].key \in E.m_nodes THEN @[i]
                             ELSE [@[i] EXCEPT !.live = FALSE]]]

HarnessInit(policy) ==
    /\ insertionKind = "always"
    /\ constraintKind = "count"
    /\ NDEBUG = FALSE
    /\ status = "ok"
    /\ cache = [id \in {"a"} |-> NewCache(0)]
    /\ last = NoCall
    /\ threads = <<>>
    /\ observed = {}
    /\ unit = [policy |-> policy, uses |-> <<>>]

\* One handler call: unless its asserts hold the process aborts.
HarnessCall(op, key, asserts, policy, uses) ==
    /\ status = "ok"
    /\ status' = IF asserts \/ NDEBUG THEN "ok" ELSE "abort"
    /\ unit' = [policy |-> policy, uses |-> uses]
    /\ last' = [NoCall EXCEPT !.op = op, !.key = key]
    /\ UNCHANGED <<cache, insertionKind, constraintKind, NDEBUG, threads, observed>>

LRU_on_insert(key) ==
    /\ key \notin unit.policy.m_nodes
    /\ HarnessCall("on_insert", key, EvictionLRU_on_insert_assert(unit.policy, key),
                   EvictionLRU_on_insert(unit.policy, key),
                   Append(unit.uses, key))

LRU_on_cache_hit(key) ==
    /\ key \in unit.policy.m_nodes
    /\ HarnessCall("on_cache_hit", key, EvictionLRU_on_cache_hit_assert(unit.policy, key),
                   EvictionLRU_on_cache_hit(unit.policy, key),
                   Append(Without(unit.uses, key), key))

LRU_on_update(key) ==
    /\ key \in unit.policy.m_nodes
    /\ HarnessCall("on_update", key, EvictionLRU_on_cache_hit_assert(unit.policy, key),
                   EvictionLRU_on_update(unit.policy, key),
                   Append(Without(unit.uses, key), key))

LRU_on_evict(key) ==
    /\ key \in unit.policy.m_nodes
    /\ LET E == Retire(EvictionLRU_on_evict(unit.policy, key))
       IN  /\ NbStale(E.m_keys) <= MaxRetired
           /\ HarnessCall("on_evict", key, EvictionLRU_on_evict_assert(unit.policy, key),
                          E, Without(unit.uses, key))

InitLRU == HarnessInit(EvictionLRU)

NextLRU ==
    \E key \in LRUKeys :
        \/ LRU_on_insert(key)
        \/ LRU_on_cache_hit(key)
        \/ LRU_on_update(key)
        \/ LRU_on_evict(key)

SpecLRU == InitLRU /\ [][NextLRU]_vars

\* EvictionSegmentedLRU under the same harness; unit.uses is the tracked
\* keys in the order of their insertion.
MaxSLRUKey == 4
SLRUKeys == 1..MaxSLRUKey
MaxProtected == 2

Tracked(S) == S.m_probation_nodes \cup S.m_protected_nodes

SLRU_on_insert(key) ==
    /\ key \notin Tracked(unit.policy)
    /\ HarnessCall("on_insert", key, EvictionSegmentedLRU_on_insert_assert(unit.policy, key),
                   EvictionSegmentedLRU_on_insert(unit.policy, key), Append(unit.uses, key))

SLRU_on_cache_hit(key) ==
    /\ key \in Tracked(unit.policy)
    /\ HarnessCall("on_cache_hit", key, EvictionSegmentedLRU_on_cache_hit_assert(unit.policy, key),
                   EvictionSegmentedLRU_on_cache_hit(unit.policy, key), unit.uses)

SLRU_on_update(key) ==
    /\ key \in Tracked(unit.policy)
    /\ HarnessCall("on_update", key, EvictionSegmentedLRU_on_cache_hit_assert(unit.policy, key),
                   EvictionSegmentedLRU_on_update(unit.policy, key), unit.uses)

SLRU_on_evict(key) ==
    /\ key \in Tracked(unit.policy)
    /\ HarnessCall("on_evict", key, EvictionSegmentedLRU_on_evict_assert(unit.policy, key),
                   EvictionSegmentedLRU_on_evict(unit.policy, key), Without(unit.uses, key))

\* TestSLRU policy; policy.set_protected_segment_size(size)
InitSLRU == \E size \in 0..MaxProtected : HarnessInit(EvictionSegmentedLRU(size))

NextSLRU ==
    \E key \in SLRUKeys :
        \/ SLRU_on_insert(key)
        \/ SLRU_on_cache_hit(key)
        \/ SLRU_on_update(key)
        \/ SLRU_on_evict(key)

SpecSLRU == InitSLRU /\ [][NextSLRU]_vars


\* EvictionSegmentedLRU under the harness of a caller that also changes the
\* size of the protected segment between the calls.
EvictionSegmentedLRU_set_protected_segment_size(S, size) ==
    [S EXCEPT !.m_protected_segment_size = size]

SLRU_set_protected_segment_size(size) ==
    HarnessCall("set_protected_segment_size", JunkKey, TRUE,
                EvictionSegmentedLRU_set_protected_segment_size(unit.policy, size), unit.uses)

NextSLRUResize ==
    \/ \E key \in SLRUKeys :
          \/ SLRU_on_insert(key)
          \/ SLRU_on_cache_hit(key)
          \/ SLRU_on_update(key)
          \/ SLRU_on_evict(key)
    \/ \E size \in 0..MaxProtected : SLRU_set_protected_segment_size(size)

SpecSLRUResize == InitSLRU /\ [][NextSLRUResize]_vars

\* The run of the BasicInsertEvict test: the keys are inserted in order into
\* a policy of protected size 4, then hit, each one at most once, in any
\* order. unit.uses is the sequence of the hits made so far.
NbScriptKeys == 5
ScriptKeys == 1..NbScriptKeys
ProtectedSegmentSize == 4

\* for (i = 0; i < 5; ++i) insert_item(keys[i], i, policy, item_store)
Script_on_insert(key) ==
    /\ Tracked(unit.policy) = 1..(key - 1)
    /\ unit.uses = <<>>
    /\ HarnessCall("on_insert", key, EvictionSegmentedLRU_on_insert_assert(unit.policy, key),
                   EvictionSegmentedLRU_on_insert(unit.policy, key), unit.uses)

\* policy.on_cache_hit(item_store.find(key)->second)
Script_on_cache_hit(key) ==
    /\ Tracked(unit.policy) = ScriptKeys
    /\ key \notin Range(unit.uses)
    /\ HarnessCall("on_cache_hit", key, EvictionSegmentedLRU_on_cache_hit_assert(unit.policy, key),
                   EvictionSegmentedLRU_on_cache_hit(unit.policy, key), Append(unit.uses, key))

\* TestSLRU policy; policy.set_protected_segment_size(4)
InitScript == HarnessInit(EvictionSegmentedLRU(ProtectedSegmentSize))

NextScript ==
    \E key \in ScriptKeys :
        \/ Script_on_insert(key)
        \/ Script_on_cache_hit(key)

SpecSLRUScript == InitScript /\ [][NextScript]_vars

----------------------------------------------------------------------------
(* The filters driven call by call, as their unit tests drive them.         *)
(* unit.uses lists what was added since construction or the last clear.     *)

MaxFilterCardinality == 2
FilterCardinalities == 1..MaxFilterCardinality
MaxFilterKey == 4
FilterKeys == 1..MaxFilterKey

\* One call of a const member function: its result is recorded.
HarnessQuery(op, key, ret) ==
    /\ status = "ok"
    /\ status' = "ok"
    /\ unit' = unit
    /\ last' = [NoCall EXCEPT !.op = op, !.key = key, !.ret = ret]
    /\ UNCHANGED <<cache, insertionKind, constraintKind, NDEBUG, threads, observed>>

Bloom_add(key) ==
    HarnessCall("add", key, TRUE, BloomFilter_add(unit.policy, key),
                IF key \in Range(unit.uses) THEN unit.uses ELSE Append(unit.uses, key))

Bloom_clear ==
    HarnessCall("clear", JunkKey, TRUE, BloomFilter_clear(unit.policy), <<>>)

Bloom_maybe_contains(key) ==
    HarnessQuery("maybe_contains", key, BloomFilter_maybe_contains(unit.policy, key))

\* BloomFilter<ItemHash> filter{cardinality}
InitBloom == \E cardinality \in FilterCardinalities : HarnessInit(BloomFilter(cardinality))

NextBloom ==
    \/ \E key \in FilterKeys : Bloom_add(key) \/ Bloom_maybe_contains(key)
    \/ Bloom_clear

SpecBloom == InitBloom /\ [][NextBloom]_vars

\* The counting filter: unit.uses lists the calls of add (their key) and of
\* decay (JunkKey) since construction or the last clear.  The counters stay
\* far below the width of uint32_t.
MaxSketchCalls == 4

Sketch_add(key) ==
    /\ Len(unit.uses) < MaxSketchCalls
    /\ HarnessCall("add", key, TRUE, CountingBloomFilter_add(unit.policy, key),
                   Append(unit.uses, key))

Sketch_clear ==
    HarnessCall("clear", JunkKey, TRUE, CountingBloomFilter_clear(unit.policy), <<>>)

Sketch_decay ==
    /\ Len(unit.uses) < MaxSketchCalls
    /\ HarnessCall("decay", JunkKey, TRUE, CountingBloomFilter_decay(unit.policy),
                   Append(unit.uses, JunkKey))

Sketch_estimate(key) ==
    HarnessQuery("estimate", key, CountingBloomFilter_estimate(unit.policy, key))

\* CountingBloomFilter<ItemHash> filter{cardinality}
InitSketch == \E cardinality \in FilterCardinalities : HarnessInit(CountingBloomFilter(cardinality))

NextSketch ==
    \/ \E key \in FilterKeys : Sketch_add(key) \/ Sketch_estimate(key)
    \/ Sketch_clear
    \/ Sketch_decay

SpecSketch == InitSketch /\ [][NextSketch]_vars

\* The TinyLFU policy driven handler by handler.
TinyLFU_on_cache_hit(key) ==
    HarnessCall("on_cache_hit", key, TRUE, InsertionTinyLFU_touch_item(unit.policy, key), unit.uses)

TinyLFU_on_cache_miss(key) ==
    HarnessCall("on_cache_miss", key, TRUE, InsertionTinyLFU_touch_item(unit.policy, key), unit.uses)

TinyLFU_clear ==
    HarnessCall("clear", JunkKey, TRUE, InsertionTinyLFU_clear(unit.policy), unit.uses)

TinyLFU_should_add(key) ==
    HarnessQuery("should_add", key, InsertionTinyLFU_should_add(unit.policy, key))

\* TestPolicy policy; policy.set_cardinality(cardinality)
InitTinyLFU == \E cardinality \in FilterCardinalities : HarnessInit(InsertionTinyLFU(cardinality))

NextTinyLFU ==
    \/ \E key \in FilterKeys :
          \/ TinyLFU_on_cache_hit(key)
          \/ TinyLFU_on_cache_miss(key)
          \/ TinyLFU_should_add(key)
    \/ TinyLFU_clear

SpecTinyLFU == InitTinyLFU /\ [][NextTinyLFU]_vars

----------------------------------------------------------------------------
(* EvictionGDSF under the harness, with the constant cost function of its  *)
(* unit tests.  unit.uses is the item store of the harness: for every      *)
(* tracked key the total size of the item the policy last saw for it, and  *)
(* the clock and the frequency estimate of the policy at that call.  The sketch of the policy never   *)
(* decays and its clock never goes back, so the harness stops touching a   *)
(* key at MaxFrequency and stops evicting at MaxClock.                     *)

MaxGDSFKey == 2
GDSFKeys == 1..MaxGDSFKey
MaxItemSize == 4
ItemSizes == 1..MaxItemSize
MaxFrequency == 3
MaxClock == 50

SizedItem(total_size) == Item(1, 0, total_size - 1)

Stored(uses, key) == uses[CHOOSE i \in 1..Len(uses) : uses[i].key = key]

Store(uses, key, item, policy) ==
    Append(SelectSeq(uses, LAMBDA u : u.key # key),
           [key |-> key, m_total_size |-> item.m_total_size, m_clock |-> policy.m_clock,
            estimate |-> CountingBloomFilter_estimate(policy.m_frequency_sketch, key)])

Frequency(key) == CountingBloomFilter_estimate(unit.policy.m_frequency_sketch, key)

GDSF_on_insert(key, total_size) ==
    /\ key \notin unit.policy.m_iterator_map
    /\ Frequency(key) < MaxFrequency
    /\ HarnessCall("on_insert", key, TRUE,
                   EvictionGDSF_on_insert(unit.policy, key, SizedItem(total_size)),
                   Store(unit.uses, key, SizedItem(total_size),
                         EvictionGDSF_on_insert(unit.policy, key, SizedItem(total_size))))

GDSF_on_cache_hit(key) ==
    /\ key \in unit.policy.m_iterator_map
    /\ Frequency(key) < MaxFrequency
    /\ LET item == SizedItem(Stored(unit.uses, key).m_total_size)
       IN  HarnessCall("on_cache_hit", key, EvictionGDSF_on_cache_hit_assert(unit.policy, key),
                       EvictionGDSF_on_cache_hit(unit.policy, key, item),
                       Store(unit.uses, key, item,
                             EvictionGDSF_on_cache_hit(unit.policy, key, item)))

GDSF_on_update(key, total_size) ==
    /\ key \in unit.policy.m_iterator_map
    /\ Frequency(key) < MaxFrequency
    /\ HarnessCall("on_update", key, EvictionGDSF_on_cache_hit_assert(unit.policy, key),
                   EvictionGDSF_on_update(unit.policy, key, SizedItem(total_size)),
                   Store(unit.uses, key, SizedItem(total_size),
                         EvictionGDSF_on_update(unit.policy, key, SizedItem(total_size))))

GDSF_on_evict(key) ==
    /\ key \in unit.policy.m_iterator_map
    /\ EvictionGDSF_on_evict(unit.policy, key).m_clock <= MaxClock
    /\ HarnessCall("on_evict", key, EvictionGDSF_on_evict_assert(unit.policy, key),
                   EvictionGDSF_on_evict(unit.policy, key),
                   SelectSeq(unit.uses, LAMBDA u : u.key # key))

GDSF_clear ==
    HarnessCall("clear", JunkKey, TRUE, EvictionGDSF_clear(unit.policy), <<>>)

InitGDSF == HarnessInit(EvictionGDSF)

NextGDSF ==
    \/ \E key \in GDSFKeys, total_size \in ItemSizes :
          \/ GDSF_on_insert(key, total_size)
          \/ GDSF_on_update(key, total_size)
    \/ \E key \in GDSFKeys : GDSF_on_cache_hit(key) \/ GDSF_on_evict(key)
    \/ GDSF_clear

SpecGDSF == InitGDSF /\ [][NextGDSF]_vars

----------------------------------------------------------------------------
(* Properties of the single-threaded cache.                                *)

A == cache["a"]
Completed(op) == status = "ok" /\ last.op = op
EvictEvent(pol, key) == [ev |-> "on_evict", pol |-> pol, key |-> key]
EraseEvent(key) == [ev |-> "erase", pol |-> "store", key |-> key]
Positions(ev, e) == {i \in 1..Len(ev) : ev[i] = e}

\* C1: after every completed public operation the constraint policy is
\* satisfied: the usage it tracks is at most the maximum it was given.
C1_ConstraintSatisfied ==
    status = "ok" =>
        \A id \in DOMAIN cache :
            /\ is_satisfied(cache[id].m_constraint_policy)
            /\ Usage(cache[id].m_constraint_policy) <= Maximum(cache[id].m_constraint_policy)

\* an update_constraint that had to evict has completed
C1_Witness == Completed("update_constraint") /\ Positions(last.ev, EraseEvent(1)) # {}

\* C2: an insert that returns false dispatched no event and left the store,
\* the eviction policy and the constraint policy as they were.
C2_FailedInsertChangesNothing ==
    [][(status' = "ok" /\ last'.op = "insert" /\ last'.ret = FALSE) =>
          /\ last'.ev = <<>>
          /\ cache'["a"].m_data = cache["a"].m_data
          /\ cache'["a"].m_eviction_policy = cache["a"].m_eviction_policy
          /\ cache'["a"].m_constraint_policy = cache["a"].m_constraint_policy]_vars

\* an insert has failed because admission accepted the first victim and
\* vetoed the second, where evicting the first alone left too little room
C2_Witness ==
    /\ Completed("insert") /\ last.ret = FALSE
    /\ last.key \notin DOMAIN A.m_data
    /\ LET victims == EvictionLRU_victims(A.m_eviction_policy)
           item == Item(MeasureKey(last.key), last.value, MeasureValue(last.value))
       IN  /\ Len(victims) >= 2
           /\ ~can_add(A.m_constraint_policy, item)
           /\ should_replace(A.m_insertion_policy, victims[1], last.key)
           /\ ~can_add(constraint_on_evict(A.m_constraint_policy, A.m_data[victims[1]]), item)
           /\ ~should_replace(A.m_insertion_policy, victims[2], last.key)

C4_VictimsAreResident ==
    status = "ok" =>
        /\ Range(EvictionLRU_victims(A.m_eviction_policy)) \subseteq DOMAIN A.m_data
        /\ Range(EvictionLRU_victims(A.m_eviction_policy)) = A.m_eviction_policy.m_nodes

\* What the entries that left the store in the last call were owed: every
\* erasure of key k comes after the one on_evict(k) of each policy that had
\* received on_insert(k), and an entry is gone only if it was erased.
Released(ev, k) ==
    \A i \in Positions(ev, EraseEvent(k)) :
        \A pol \in {"eviction", "constraint"} :
            /\ Cardinality(Positions(ev, EvictEvent(pol, k))) = 1
            /\ \E j \in Positions(ev, EvictEvent(pol, k)) : j < i

AllReleased(before, after, ev) ==
    /\ \A k \in DOMAIN before : k \notin DOMAIN after => Positions(ev, EraseEvent(k)) # {}
    /\ \A k \in DOMAIN before : Released(ev, k)

\* C5 as claimed: whatever the operation, clear included, every entry that
\* leaves the store was released by one on_evict per policy before its erasure.
C5_EveryDepartureReleased ==
    [][status' = "ok" => AllReleased(cache["a"].m_data, cache'["a"].m_data, last'.ev)]_vars

\* C5 amended: remove, retain, the evictions an insert commits and
\* update_constraint release every entry by one on_evict per policy before
\* they erase it; clear erases the whole store with no on_evict and then
\* calls clear() on the three policies in turn.
C5_DeparturesReleasedExceptClear ==
    [][status' = "ok" =>
          IF last'.op = "clear"
          THEN /\ \A i \in 1..Len(last'.ev) : last'.ev[i].ev \in {"erase", "clear"}
               /\ \A k \in DOMAIN cache["a"].m_data : Positions(last'.ev, EraseEvent(k)) # {}
               /\ SubSeq(last'.ev, Len(last'.ev) - 2, Len(last'.ev))
                     = [i \in 1..3 |-> [ev |-> "clear", key |-> JunkKey,
                                        pol |-> <<"insertion", "eviction", "constraint">>[i]]]
               /\ cache'["a"].m_data = EmptyMap
               /\ cache'["a"].m_eviction_policy = EvictionLRU
               /\ Usage(cache'["a"].m_constraint_policy) = 0
          ELSE AllReleased(cache["a"].m_data, cache'["a"].m_data, last'.ev)]_vars

\* an insert has committed the eviction of another key, or a retain has
\* removed two entries
C5_Witness ==
    \/ /\ Completed("insert") /\ last.ret = TRUE
       /\ \E k \in Keys \ {last.key} : Positions(last.ev, EraseEvent(k)) # {}
    \/ /\ Completed("retain") /\ last.value = 2

\* The handlers one event reaches: each policy that declares it, once, the
\* insertion policy first, then the eviction policy, then the constraint.
Dispatch(ev, key) ==
    (IF Declares("insertion", ev) THEN <<[ev |-> ev, pol |-> "insertion", key |-> key]>> ELSE <<>>)
    \o (IF Declares("eviction", ev) THEN <<[ev |-> ev, pol |-> "eviction", key |-> key]>> ELSE <<>>)
    \o (IF Declares("constraint", ev) THEN <<[ev |-> ev, pol |-> "constraint", key |-> key]>> ELSE <<>>)

RECURSIVE HandlerCalls(_)
HandlerCalls(ev) ==
    IF ev = <<>> THEN <<>>
    ELSE (IF Head(ev).ev \in {"erase", "clear"} THEN <<>> ELSE <<Head(ev)>>)
         \o HandlerCalls(Tail(ev))

RECURSIVE EventAfterEvent(_)
EventAfterEvent(calls) ==
    \/ calls = <<>>
    \/ LET group == Dispatch(calls[1].ev, calls[1].key)
       IN  /\ group # <<>> /\ Len(group) <= Len(calls)
           /\ SubSeq(calls, 1, Len(group)) = group
           /\ EventAfterEvent(SubSeq(calls, Len(group) + 1, Len(calls)))

\* C6: every event reaches each policy that declares its handler exactly
\* once, in the order insertion, eviction, constraint: a lookup dispatches
\* one on_cache_hit or one on_cache_miss, and every call's handler calls are
\* whole dispatches, one on_evict dispatch per erased entry.
C6_DispatchedOnceInOrder ==
    status = "ok" =>
        /\ EventAfterEvent(HandlerCalls(last.ev))
        /\ last.op = "find" =>
              HandlerCalls(last.ev) =
                  Dispatch(IF last.ret # NotFound THEN "on_cache_hit" ELSE "on_cache_miss", last.key)
        /\ last.op # "clear" =>
              \A k \in Keys : Cardinality(Positions(last.ev, EvictEvent("eviction", k)))
                                 = Cardinality(Positions(last.ev, EraseEvent(k)))

----------------------------------------------------------------------------
(* Properties of the thread-safe cache.                                    *)

\* C7: a thread that reads an accumulator in hit_rate() or byte_hit_rate()
\* holds the guard of the cache, so no other thread is inside find().
C7_StatisticsReadUnderGuard ==
    \A t \in DOMAIN threads :
        threads[t].pc = "reading" =>
            /\ A.m_mutex.owner = t
            /\ \A u \in DOMAIN threads \ {t} : ~(threads[u].op = "find" /\ Holding(u))

SwapStep(t) == SwapCall(t) \/ LockFirst(t) \/ LockSecond(t) \/ SwapBody(t)
Swapping(t) == threads[t].pc \in {"lock_first", "lock_second", "swap"}
Owns(t, id) == cache[id].m_mutex.count > 0 /\ cache[id].m_mutex.owner = t

SwappedMembers ==
    {"m_statistics_window_size", "m_insertion_policy", "m_eviction_policy",
     "m_constraint_policy", "m_data", "m_hit_rate_acc", "m_byte_hit_rate_acc"}

\* the policies of c describe the store of c
Consistent(c) ==
    /\ c.m_eviction_policy.m_nodes = DOMAIN c.m_data
    /\ Range(EvictionLRU_victims(c.m_eviction_policy)) = DOMAIN c.m_data
    /\ Usage(c.m_constraint_policy) =
          IF constraintKind = "memory"
          THEN SumOver(DOMAIN c.m_data, [k \in DOMAIN c.m_data |-> c.m_data[k].m_total_size])
          ELSE Cardinality(DOMAIN c.m_data)
    /\ is_satisfied(c.m_constraint_policy)

\* C10: the step that swaps gives each cache every member the other had, so
\* the policies of each cache describe the store beside them; and swapping
\* the two caches twice gives both their members back.
C10_SwapExchangesEverything ==
    [][\A t \in DOMAIN threads :
          (threads[t].pc = "swap" /\ threads'[t].pc = "idle") =>
              LET me == threads[t].me
                  other == threads[t].other
                  once == Cache_swap(cache[me], cache[other])
                  twice == Cache_swap(once.me, once.other)
              IN  /\ \A f \in SwappedMembers :
                        /\ cache'[me][f] = cache[other][f]
                        /\ cache'[other][f] = cache[me][f]
                  /\ Consistent(cache'[me]) /\ Consistent(cache'[other])
                  /\ twice.me = cache[me] /\ twice.other = cache[other]]_vars

\* a swap has just exchanged two caches that differed in every member
C10_Witness ==
    /\ last.op = "swap"
    /\ cache["a"].m_data # cache["b"].m_data
    /\ cache["a"].m_eviction_policy # cache["b"].m_eviction_policy
    /\ cache["a"].m_constraint_policy # cache["b"].m_constraint_policy
    /\ cache["a"].m_statistics_window_size # cache["b"].m_statistics_window_size
    /\ cache["a"].m_hit_rate_acc # cache["b"].m_hit_rate_acc
    /\ cache["a"].m_byte_hit_rate_acc # cache["b"].m_byte_hit_rate_acc

----------------------------------------------------------------------------
(* Properties of update_constraint, admission and the LRU order.           *)

\* The tracked keys of the LRU policy, least recently used first.
LeastRecentFirst(E) ==
    LET live == SelectSeq(E.m_keys, LAMBDA n : n.live)
    IN  [i \in 1..Len(live) |-> live[Len(live) + 1 - i].key]

\* The keys the store erased during a call, in order.
ErasedKeys(ev) ==
    LET erased == SelectSeq(ev, LAMBDA e : e.ev = "erase")
    IN  [i \in 1..Len(erased) |-> erased[i].key]

\* The shortest prefix of victims whose eviction satisfies constraint P.
RECURSIVE FewestVictims(_, _, _)
FewestVictims(P, data, victims) ==
    IF victims = <<>> \/ is_satisfied(P) THEN <<>>
    ELSE <<Head(victims)>>
         \o FewestVictims(constraint_on_evict(P, data[Head(victims)]), data, Tail(victims))

\* C11: update_constraint returns, having erased the least recently used
\* entries one after the other, as few of them as satisfy the new limit,
\* and nothing else.
C11_EvictsFewestInVictimOrder ==
    [][(last'.op = "update_constraint") =>
          LET fewest == FewestVictims(constraint_update(A.m_constraint_policy, last'.value),
                                      A.m_data, LeastRecentFirst(A.m_eviction_policy))
          IN  /\ status' = "ok"
              /\ ErasedKeys(last'.ev) = fewest
              /\ cache'["a"].m_data = [k \in DOMAIN A.m_data \ Range(fewest) |-> A.m_data[k]]
              /\ is_satisfied(cache'["a"].m_constraint_policy)]_vars

\* The probes of key fall on filter cells that the probes of the keys seen
\* cover: the sketches cannot tell key from the keys seen.
Collides(key, seen) ==
    Probes(BloomFilter(SketchCardinality), key)
        \subseteq UNION {Probes(BloomFilter(SketchCardinality), k) : k \in seen}

C13_LeastRecentlyUsedFirst ==
    [][/\ EvictionLRU_victims(unit'.policy) = unit'.uses
       /\ unit'.uses = unit.uses =>
             EvictionLRU_victims(unit'.policy) = EvictionLRU_victims(unit.policy)]_vars

----------------------------------------------------------------------------
(* Properties of EvictionSegmentedLRU.                                     *)

\* C15: the victim sequence is the probation list from its tail to its
\* head followed by the protected list from its tail to its head; it
\* yields every tracked key exactly once, each key being in exactly one
\* segment; on_evict takes its key out and leaves the others in order.
C15_EveryTrackedKeyOnce ==
    [][status' = "ok" =>
          LET S == unit'.policy
              victims == EvictionSegmentedLRU_victims(S)
          IN  /\ victims = Reverse(S.m_probation_list) \o Reverse(S.m_protected_list)
              /\ Range(victims) = Range(unit'.uses)
              /\ Len(victims) = Cardinality(Range(victims))
              /\ S.m_probation_nodes \cap S.m_protected_nodes = {}
              /\ Range(S.m_probation_list) = S.m_probation_nodes
              /\ Range(S.m_protected_list) = S.m_protected_nodes
              /\ last'.op = "on_evict" =>
                    victims = Without(EvictionSegmentedLRU_victims(unit.policy), last'.key)]_vars

\* key 2 has been evicted and both segments still hold keys
C15_Witness ==
    /\ last.op = "on_evict" /\ last.key = 2
    /\ unit.policy.m_probation_list = <<4, 1>>
    /\ unit.policy.m_protected_list = <<3>>
    /\ EvictionSegmentedLRU_victims(unit.policy) = <<1, 4, 3>>

\* the tracked keys that were not hit yet, in the order of their insertion
Unhit == SelectSeq(SetToSeq(Tracked(unit.policy)), LAMBDA k : k \notin Range(unit.uses))

\* C14 as stated: after the keys 1..5 were inserted and then hit in the
\* order 1, 2, 3, 4, 5, the first victim is 1 and the second victim is 5.
C14_SecondVictimAfterAscendingHits ==
    unit.uses = <<1, 2, 3, 4, 5>> =>
        /\ EvictionSegmentedLRU_victims(unit.policy)[1] = 1
        /\ EvictionSegmentedLRU_victims(unit.policy)[2] = 5

\* C14, amended: with a protected size of 4 and the keys 1..5 inserted in
\* order, the victims are the keys not hit yet in insertion order, followed
\* by the keys hit in the order of their hits: a hit on 1 makes 2 the first
\* victim; the hits 1, 5, 4, 3, 2 leave 1 as first and 5 as second victim,
\* and the hits 1, 2, 3, 4, 5 leave 1 as first and 2 as second victim.
C14_VictimsFollowHitOrder ==
    LET victims == EvictionSegmentedLRU_victims(unit.policy)
    IN  /\ status = "ok"
        /\ victims = Unhit \o unit.uses
        /\ unit.uses = <<1>> => victims[1] = 2
        /\ unit.uses = <<1, 5, 4, 3, 2>> => victims[1] = 1 /\ victims[2] = 5
        /\ unit.uses = <<1, 2, 3, 4, 5>> => victims[1] = 1 /\ victims[2] = 2

\* the five keys have been hit in the order 1, 5, 4, 3, 2: the protected
\* segment is full and key 1 went back to probation
C14_Witness ==
    /\ unit.uses = <<1, 5, 4, 3, 2>>
    /\ unit.policy.m_probation_list = <<1>>
    /\ unit.policy.m_protected_list = <<2, 3, 4, 5>>

----------------------------------------------------------------------------
(* Properties of a cache of maximum zero, of contains and of the           *)
(* statistics.                                                             *)

\* C16 as stated: on a cache constructed with a maximum of zero, every
\* insert returns false and the cache stays empty.
C16_ZeroMaximumRejectsEverything ==
    [][last'.op = "insert" => last'.ret = FALSE /\ A'.m_data = EmptyMap]_vars

\* C16, amended: on a cache constructed with a maximum of zero, every insert
\* returns false and changes nothing under ConstraintCount, and so does every
\* insert of an item whose measured total size is not zero under
\* ConstraintMemory; the cache only ever holds items of total size zero.
C16_ZeroMaximumRejectsEverySizedItem ==
    [][last'.op = "insert" =>
          /\ status' = "ok"
          /\ (\/ constraintKind = "count"
              \/ MeasureKey(last'.key) + MeasureValue(last'.value) > 0) =>
                  last'.ret = FALSE /\ cache' = cache
          /\ constraintKind = "count" => A'.m_data = EmptyMap
          /\ \A k \in DOMAIN A'.m_data : A'.m_data[k].m_total_size = 0]_vars

\* an item of size zero is stored by the cache of zero bytes, and the insert
\* of an item that has a size has been rejected
C16_Witness ==
    /\ constraintKind = "memory" /\ Completed("insert") /\ last.ret = FALSE
    /\ MeasureKey(last.key) + MeasureValue(last.value) > 0
    /\ DOMAIN A.m_data = {EmptyKey}
    /\ A.m_constraint_policy.m_maximum_memory = 0

\* C17: contains(k) returns whether k is stored and changes nothing: the
\* store, the three policies and the two accumulators are as before, and no
\* handler of any policy is called, whether k is stored or not.
C17_ContainsChangesNothing ==
    [][last'.op = "contains" =>
          /\ status' = "ok"
          /\ last'.ret = (last'.key \in DOMAIN A.m_data)
          /\ last'.ev = <<>>
          /\ observed' = observed
          /\ cache' = cache]_vars

\* contains has found a key in a cache whose TinyLFU sketches were fed and
\* whose accumulators hold samples
C17_Witness ==
    /\ insertionKind = "tinylfu" /\ Completed("contains") /\ last.ret = TRUE
    /\ observed # {}
    /\ A.m_hit_rate_acc # MeanAccumulator

\* C18: every find adds one sample to each accumulator, 1 and the stored
\* value size when the key is stored, 0 and 0 when it is not; insert,
\* contains, remove, retain, for_each and update_constraint add none.
C18_OneSamplePerFind ==
    [][status' = "ok" =>
          LET w == A.m_statistics_window_size
              key == last'.key
          IN  /\ (last'.op = "find" /\ key \in DOMAIN A.m_data) =>
                    /\ A'.m_hit_rate_acc = Accumulate(A.m_hit_rate_acc, w, 1)
                    /\ A'.m_byte_hit_rate_acc =
                          Accumulate(A.m_byte_hit_rate_acc, w, A.m_data[key].m_value_size)
              /\ (last'.op = "find" /\ key \notin DOMAIN A.m_data) =>
                    /\ A'.m_hit_rate_acc = Accumulate(A.m_hit_rate_acc, w, 0)
                    /\ A'.m_byte_hit_rate_acc = Accumulate(A.m_byte_hit_rate_acc, w, 0)
              /\ last'.op \in {"insert", "contains", "remove", "retain",
                               "for_each", "update_constraint"} =>
                    /\ A'.m_hit_rate_acc = A.m_hit_rate_acc
                    /\ A'.m_byte_hit_rate_acc = A.m_byte_hit_rate_acc]_vars

----------------------------------------------------------------------------
(* Properties of the importing constructor and of can_add.                 *)

\* the last item of each key among the items
Latest(items) ==
    [k \in {items[i][1] : i \in 1..Len(items)} |->
        LET i == CHOOSE i \in 1..Len(items) :
                    /\ items[i][1] = k
                    /\ \A j \in (i + 1)..Len(items) : items[j][1] # k
        IN  Item(MeasureKey(k), items[i][2], MeasureValue(items[i][2]))]

\* whether item passes can_add after the items before it were inserted
Passes(before, item, max) ==
    IF constraintKind = "count" THEN Cardinality(DOMAIN Latest(before)) < max
    ELSE SumOver(DOMAIN Latest(before), [k \in DOMAIN Latest(before) |-> Latest(before)[k].m_total_size])
            + MeasureKey(item[1]) + MeasureValue(item[2]) <= max

\* the longest prefix of the collection whose items each pass can_add
LongestPrefix(collection, max) ==
    LET n == CHOOSE n \in 0..Len(collection) :
                /\ \A i \in 1..n : Passes(SubSeq(collection, 1, i - 1), collection[i], max)
                /\ n < Len(collection) =>
                      ~Passes(SubSeq(collection, 1, n), collection[n + 1], max)
    IN  SubSeq(collection, 1, n)

\* C19: the cache constructed from a collection stores the items of the
\* longest prefix of the collection whose items each pass can_add at their
\* turn, and no item after the first one that does not pass.
C19_ImportStopsAtFirstRejection ==
    last.op # "init" =>
        /\ status = "ok"
        /\ A.m_data = Latest(LongestPrefix(unit, Maximum(A.m_constraint_policy)))

\* the import has stopped at its second item, and its third item would fit
C19_Witness ==
    /\ Completed("import") /\ Len(unit) = 3
    /\ Len(LongestPrefix(unit, Maximum(A.m_constraint_policy))) = 1
    /\ Passes(SubSeq(unit, 1, 1), unit[3], Maximum(A.m_constraint_policy))
    /\ unit[3][1] \notin DOMAIN A.m_data

\* C20: when can_add returns true for the item of a key that is not stored,
\* the insert of that key returns true and the item is stored.
C20_CanAddGuaranteesInsert ==
    [][(/\ last'.op = "insert"
        /\ last'.key \notin DOMAIN A.m_data
        /\ can_add(A.m_constraint_policy,
                   Item(MeasureKey(last'.key), last'.value, MeasureValue(last'.value)))) =>
          /\ last'.ret = TRUE
          /\ last'.key \in DOMAIN A'.m_data
          /\ A'.m_data[last'.key].m_value = last'.value]_vars

----------------------------------------------------------------------------
(* Properties of remove, retain and clear.                                 *)

\* what the removal of the keys, one after the other, sends and erases
RECURSIVE RemovalEvents(_)
RemovalEvents(keys) ==
    IF keys = <<>> THEN <<>>
    ELSE <<EvictEvent("eviction", Head(keys)), EvictEvent("constraint", Head(keys)),
           EraseEvent(Head(keys))>> \o RemovalEvents(Tail(keys))

Restrict(data, keys) == [k \in keys |-> data[k]]

\* C21: remove(k) of a stored key sends on_evict for k, erases that entry
\* alone and returns true; retain, for every set of entries its predicate
\* rejects, sends on_evict for each of them and erases it, and keeps every
\* other entry with its value.
C21_RemoveAndRetainTakeExactly ==
    status = "ok" =>
        \A rd \in Readings(A) :
            /\ \A key \in DOMAIN A.m_data :
                  LET R == Cache_remove(StaleView(A, rd), key)
                  IN  /\ R.st = "ok" /\ R.ret = TRUE
                      /\ R.c.m_data = Restrict(A.m_data, DOMAIN A.m_data \ {key})
                      /\ R.ev = RemovalEvents(<<key>>)
            /\ \A order \in Orders(DOMAIN A.m_data) :
                  LET R == Cache_retain(StaleView(A, rd), order)
                  IN  /\ R.st = "ok"
                      /\ R.c.m_data = Restrict(A.m_data, DOMAIN A.m_data \ Range(order))
                      /\ R.ev = RemovalEvents(order)

\* retain has removed one entry of two and kept the other
C21_Witness ==
    /\ Completed("retain") /\ last.value = 1
    /\ last.ev = RemovalEvents(<<last.ev[1].key>>)
    /\ Cardinality(DOMAIN A.m_data) = 1
    /\ last.ev[1].key \notin DOMAIN A.m_data

----------------------------------------------------------------------------
(* Properties of the filters and of TinyLFU.                               *)

\* C23: maybe_contains is true of every key added since the last clear, and
\* after a clear (as after the construction) it is false of every key until
\* a key is added.
C23_NoFalseNegatives ==
    /\ status = "ok"
    /\ \A key \in Range(unit.uses) : BloomFilter_maybe_contains(unit.policy, key)
    /\ unit.uses = <<>> => \A key \in FilterKeys : ~BloomFilter_maybe_contains(unit.policy, key)
    /\ last.op = "maybe_contains" =>
          /\ last.key \in Range(unit.uses) => last.ret = TRUE
          /\ unit.uses = <<>> => last.ret = FALSE

\* a key added before two others is still reported, a key never added is not
C23_Witness ==
    /\ last.op = "maybe_contains" /\ last.ret = TRUE
    /\ Len(unit.uses) = 3 /\ last.key = unit.uses[1]
    /\ \E key \in FilterKeys \ Range(unit.uses) : ~BloomFilter_maybe_contains(unit.policy, key)

\* the number of calls add(key) among the calls
NbAdds(uses, key) == Cardinality({i \in 1..Len(uses) : uses[i] = key})

\* C24: add(x) raises estimate(x) by exactly one and lowers the estimate of
\* no key; as long as there was no decay since the last clear, estimate(x)
\* is at least the number of calls add(x).
C24_AddRaisesEstimateByOne ==
    [][/\ status' = "ok"
       /\ last'.op = "add" =>
             /\ CountingBloomFilter_estimate(unit'.policy, last'.key)
                   = CountingBloomFilter_estimate(unit.policy, last'.key) + 1
             /\ \A key \in FilterKeys :
                   CountingBloomFilter_estimate(unit'.policy, key)
                      >= CountingBloomFilter_estimate(unit.policy, key)
       /\ JunkKey \notin Range(unit'.uses) =>
             \A key \in FilterKeys :
                CountingBloomFilter_estimate(unit'.policy, key) >= NbAdds(unit'.uses, key)]_vars

\* a key was added twice between the adds of two other keys, and an estimate
\* is above the number of adds of its key
C24_Witness ==
    /\ last.op = "add" /\ Len(unit.uses) = 4
    /\ JunkKey \notin Range(unit.uses)
    /\ \E key \in FilterKeys : NbAdds(unit.uses, key) = 2
    /\ \E key \in FilterKeys :
          CountingBloomFilter_estimate(unit.policy, key) > NbAdds(unit.uses, key)

\* C25: estimate(k) is at most the number of calls of add since the
\* construction or the last clear, for every key k, and one decay() takes
\* estimate(k) from e to e divided by two, rounded down, for every key k.
C25_EstimateBoundedAndHalved ==
    [][/\ status' = "ok"
       /\ \A key \in FilterKeys :
             CountingBloomFilter_estimate(unit'.policy, key)
                <= Cardinality({i \in 1..Len(unit'.uses) : unit'.uses[i] # JunkKey})
       /\ last'.op = "decay" =>
             \A key \in FilterKeys :
                CountingBloomFilter_estimate(unit'.policy, key)
                   = CountingBloomFilter_estimate(unit.policy, key) \div 2]_vars

\* a decay has halved an estimate of three to one
C25_Witness ==
    /\ last.op = "decay" /\ Len(unit.uses) = 4
    /\ \E key \in FilterKeys :
          /\ NbAdds(unit.uses, key) = 3
          /\ CountingBloomFilter_estimate(unit.policy, key) = 1

\* C26: a hit or a miss on a key the gatekeeper does not report sets the
\* bits of the key in the gatekeeper and leaves the sketch as it was; on a
\* key the gatekeeper reports it raises the counters of the key that hold
\* their minimum and, exactly when that minimum plus one is above the
\* cardinality, empties the gatekeeper and halves every counter.
C26_TouchGatesThenCounts ==
    [][last'.op \in {"on_cache_hit", "on_cache_miss"} =>
          LET key == last'.key
              G == unit.policy.m_gatekeeper
              F == unit.policy.m_frequency_sketch
              G1 == unit'.policy.m_gatekeeper
              F1 == unit'.policy.m_frequency_sketch
              estimate == CountingBloomFilter_estimate(F, key)
              added == [i \in DOMAIN F.m_filter |->
                           IF i \in Probes(F, key) /\ F.m_filter[i] = estimate
                           THEN F.m_filter[i] + 1 ELSE F.m_filter[i]]
          IN  /\ status' = "ok"
              /\ ~(\A i \in Probes(G, key) : G.m_filter[i]) =>
                    /\ F1 = F
                    /\ G1.m_filter = [i \in DOMAIN G.m_filter |->
                                         G.m_filter[i] \/ i \in Probes(G, key)]
              /\ ((\A i \in Probes(G, key) : G.m_filter[i])
                     /\ estimate + 1 <= F.m_cardinality) =>
                    /\ G1 = G
                    /\ F1.m_filter = added
              /\ ((\A i \in Probes(G, key) : G.m_filter[i])
                     /\ estimate + 1 > F.m_cardinality) =>
                    /\ \A i \in DOMAIN G1.m_filter : ~G1.m_filter[i]
                    /\ F1.m_filter = [i \in DOMAIN added |-> added[i] \div 2]]_vars

\* a touch has reset the policy: the gatekeeper is empty and a counter that
\* had reached the cardinality plus one was halved
C26_Witness ==
    /\ last.op \in {"on_cache_hit", "on_cache_miss"}
    /\ unit.policy.m_frequency_sketch.m_cardinality = 2
    /\ \A i \in DOMAIN unit.policy.m_gatekeeper.m_filter : ~unit.policy.m_gatekeeper.m_filter[i]
    /\ CountingBloomFilter_estimate(unit.policy.m_frequency_sketch, last.key) = 1
    /\ \E key \in FilterKeys \ {last.key} :
          CountingBloomFilter_estimate(unit.policy.m_frequency_sketch, key) = 0

----------------------------------------------------------------------------
(* Properties of EvictionGDSF.                                             *)

\* C27: with the constant cost function, two tracked entries whose
\* coefficients were computed under the same clock are in the victim
\* sequence in ascending order of estimate / total_size, the estimate being
\* the one the sketch gave at the entry's last insert, hit or update: of
\* two entries with equal estimates the larger item is the earlier victim,
\* and an entry whose estimate was raised until estimate / total_size
\* exceeds that of a smaller item comes after the smaller item.
C27_VictimsOrderedBySizeAndFrequency ==
    LET G == unit.policy
        victims == EvictionGDSF_victims(G)
        size(k) == Stored(unit.uses, k).m_total_size
        clock(k) == Stored(unit.uses, k).m_clock
        est(k) == Stored(unit.uses, k).estimate
    IN  \A i, j \in 1..Len(victims) :
            (i < j /\ clock(victims[i]) = clock(victims[j])) =>
                /\ est(victims[i]) = est(victims[j]) => size(victims[i]) >= size(victims[j])
                /\ est(victims[i]) * size(victims[j]) <= est(victims[j]) * size(victims[i])

\* The large item was updated until the small item became the first victim.
C27_Witness ==
    /\ Completed("on_update")
    /\ Len(unit.policy.m_priority_set) = 2
    /\ LET victims == EvictionGDSF_victims(unit.policy)
           small == Stored(unit.uses, victims[1])
           large == Stored(unit.uses, victims[2])
       IN  /\ last.key = victims[2]
           /\ small.m_total_size < large.m_total_size
           /\ small.m_clock = large.m_clock
           /\ small.estimate < large.estimate

----------------------------------------------------------------------------
(* Properties of callbacks in thread-safe mode.                            *)

\* C28: while a thread runs for_each or retain, the guard of the cache is
\* its own: a read-only operation that its callback calls on the same
\* cache can take the guard at once, the guard is still held when that
\* operation has returned, and no other thread is inside an operation or
\* can enter one before the walk returns.
C28_CallbackReentersGuard ==
    \A t \in Threads :
        Walking(t) =>
            /\ Cache_lock(A, t)
            /\ A.m_mutex.owner = t
            /\ A.m_mutex.count = (IF threads[t].pc = "nested" THEN 2 ELSE 1)
            /\ \A u \in Threads \ {t} : threads[u].pc = "idle" /\ ~Cache_lock(A, u)

\* The predicate of retain has called contains for the entry it was shown
\* and got its answer; the walk goes on with the guard held once.
C28_Witness ==
    \E t \in Threads :
        /\ status = "ok"
        /\ threads[t].op = "retain"
        /\ threads[t].pc = "returning"
        /\ threads[t].nested = "contains"
        /\ threads[t].ret = <<TRUE>>
        /\ Len(threads[t].rest) = 2
        /\ A.m_mutex = [owner |-> t, count |-> 1]

----------------------------------------------------------------------------
(* Properties of the victim walks of insert.                               *)

\* The constraint copy after the simulated removal of keys.
RECURSIVE SimulatedRemoval(_, _, _)
SimulatedRemoval(P, data, keys) ==
    IF keys = <<>> THEN P
    ELSE SimulatedRemoval(constraint_on_evict(P, data[Head(keys)]), data, Tail(keys))

\* C29: an insert of a key that is not stored, that needs evictions and
\* succeeds, erases exactly a prefix of the victim sequence, the shortest
\* one after whose simulated removal the constraint copy accepts the item:
\* without the last erased victim the copy would still refuse it.
C29_CommitsShortestVictimPrefix ==
    [][(/\ last'.op = "insert" /\ status' = "ok" /\ last'.ret = TRUE
        /\ last'.key \notin DOMAIN A.m_data
        /\ ~can_add(A.m_constraint_policy,
                    Item(MeasureKey(last'.key), last'.value, MeasureValue(last'.value)))) =>
          LET item == Item(MeasureKey(last'.key), last'.value, MeasureValue(last'.value))
              victims == EvictionLRU_victims(A.m_eviction_policy)
              erased == ErasedKeys(last'.ev)
          IN  /\ erased # <<>>
              /\ Len(erased) <= Len(victims)
              /\ erased = SubSeq(victims, 1, Len(erased))
              /\ can_add(SimulatedRemoval(A.m_constraint_policy, A.m_data, erased), item)
              /\ ~can_add(SimulatedRemoval(A.m_constraint_policy, A.m_data, Front(erased)), item)]_vars

\* The same from the states in which no reference of the eviction policy
\* dangles.
C29_ShortestPrefixOfSoundList ==
    [][(/\ last'.op = "insert" /\ status' = "ok" /\ last'.ret = TRUE
        /\ NbStale(A.m_eviction_policy.m_keys) = 0
        /\ last'.key \notin DOMAIN A.m_data
        /\ ~can_add(A.m_constraint_policy,
                    Item(MeasureKey(last'.key), last'.value, MeasureValue(last'.value)))) =>
          LET item == Item(MeasureKey(last'.key), last'.value, MeasureValue(last'.value))
              victims == EvictionLRU_victims(A.m_eviction_policy)
              erased == ErasedKeys(last'.ev)
          IN  /\ erased # <<>>
              /\ Len(erased) <= Len(victims)
              /\ erased = SubSeq(victims, 1, Len(erased))
              /\ can_add(SimulatedRemoval(A.m_constraint_policy, A.m_data, erased), item)
              /\ ~can_add(SimulatedRemoval(A.m_constraint_policy, A.m_data, Front(erased)), item)]_vars

\* The events a call dispatched to the eviction policy, in order.
EvictionEvents(ev) == SelectSeq(ev, LAMBDA e : e.pol \in {"eviction", "store"})

\* C30: an update of a resident key k that needs evictions, whose victim
\* walk commits k itself and succeeds: from k on the walk went on exactly
\* as long as the constraint copy refused to add the new item; the old
\* entry of k is evicted with on_evict and erased, then the new item enters
\* through on_insert and no on_update is dispatched; k is stored with the
\* new value and the constraint tracks what the store holds.
C30_UpdateThatEvictsItsOwnKey ==
    [][(/\ last'.op = "insert" /\ status' = "ok" /\ last'.ret = TRUE
        /\ last'.key \in DOMAIN A.m_data
        /\ last'.key \in Range(ErasedKeys(last'.ev))) =>
          LET k == last'.key
              old_item == A.m_data[k]
              new_item == Item(MeasureKey(k), last'.value, MeasureValue(last'.value))
              erased == ErasedKeys(last'.ev)
              after == cache'["a"]
              at == CHOOSE i \in 1..Len(erased) : erased[i] = k
              policy == EvictionEvents(last'.ev)
          IN  /\ ~can_replace(A.m_constraint_policy, old_item, new_item)
              /\ Cardinality(Range(erased)) = Len(erased)
              /\ can_add(SimulatedRemoval(A.m_constraint_policy, A.m_data, erased), new_item)
              /\ \A n \in at..(Len(erased) - 1) :
                    ~can_add(SimulatedRemoval(A.m_constraint_policy, A.m_data,
                                              SubSeq(erased, 1, n)), new_item)
              /\ \A n \in 0..(at - 1) :
                    ~can_replace(SimulatedRemoval(A.m_constraint_policy, A.m_data,
                                                  SubSeq(erased, 1, n)), old_item, new_item)
              /\ \A i \in 1..Len(last'.ev) : last'.ev[i].ev # "on_update"
              /\ Len(policy) = 2 * Len(erased) + 1
              /\ \A i \in 1..Len(erased) :
                    /\ policy[2 * i - 1] = EvictEvent("eviction", erased[i])
                    /\ policy[2 * i] = EraseEvent(erased[i])
              /\ Last(policy) = [ev |-> "on_insert", pol |-> "eviction", key |-> k]
              /\ DOMAIN after.m_data = (DOMAIN A.m_data \ Range(erased)) \cup {k}
              /\ after.m_data[k] = new_item
              /\ Cardinality({n \in 1..Len(after.m_eviction_policy.m_keys) :
                                 /\ after.m_eviction_policy.m_keys[n].live
                                 /\ after.m_eviction_policy.m_keys[n].key = k}) = 1
              /\ Usage(after.m_constraint_policy)
                    = (IF constraintKind = "memory"
                       THEN SumOver(DOMAIN after.m_data,
                                    [j \in DOMAIN after.m_data |-> after.m_data[j].m_total_size])
                       ELSE Cardinality(DOMAIN after.m_data))]_vars

\* The update of the least recently used key has evicted that key and the
\* other entry, and stored the new value.
C30_Witness ==
    /\ Completed("insert") /\ last.ret = TRUE
    /\ Positions(last.ev, EraseEvent(last.key)) # {}
    /\ Len(ErasedKeys(last.ev)) = 2
    /\ ErasedKeys(last.ev)[1] = last.key
    /\ DOMAIN A.m_data = {last.key}
    /\ A.m_data[last.key].m_value = last.value

----------------------------------------------------------------------------
(* Properties of update_constraint, of the GDSF clock and of the sketches. *)

\* C31: every call of update_constraint returns: it neither loops for ever
\* nor ends the process, it erases at most as many entries as the store
\* held, each of them resident, and the constraint is satisfied afterwards.
C31_UpdateConstraintTerminates ==
    [][(last'.op = "update_constraint") =>
          /\ status' = "ok"
          /\ Len(ErasedKeys(last'.ev)) <= Cache_number_of_items(A)
          /\ Range(ErasedKeys(last'.ev)) \subseteq DOMAIN A.m_data
          /\ is_satisfied(cache'["a"].m_constraint_policy)]_vars

\* The same from the states in which no reference of the eviction policy
\* dangles.
C31_TerminatesOnSoundList ==
    [][(last'.op = "update_constraint" /\ NbStale(A.m_eviction_policy.m_keys) = 0) =>
          /\ status' = "ok"
          /\ Len(ErasedKeys(last'.ev)) <= Cache_number_of_items(A)
          /\ Range(ErasedKeys(last'.ev)) \subseteq DOMAIN A.m_data
          /\ is_satisfied(cache'["a"].m_constraint_policy)]_vars

\* The coefficient of the entry of key in the priority set of G.
CoefficientOf(G, key) ==
    G.m_priority_set[CHOOSE j \in 1..Len(G.m_priority_set) :
                         G.m_priority_set[j].m_key = key].m_h_coefficient

\* C32: on_evict(k) leaves the clock at the greater of the clock and the
\* coefficient of k: the clock never decreases and is never smaller than
\* the coefficient of the entry just evicted.
C32_ClockIsLargestEvicted ==
    [][(last'.op = "on_evict" /\ status' = "ok") =>
          LET h == CoefficientOf(unit.policy, last'.key)
              clock == unit.policy.m_clock
              after == unit'.policy.m_clock
          IN  /\ after >= clock
              /\ after * h.den >= h.num
              /\ after * h.den = (IF h.num > clock * h.den THEN h.num ELSE clock * h.den)]_vars

\* The part of it that the integer clock keeps: the clock never decreases,
\* and it is the coefficient of the evicted entry rounded down when that is
\* greater.
C32_ClockNeverDecreases ==
    [][(last'.op = "on_evict" /\ status' = "ok") =>
          LET h == CoefficientOf(unit.policy, last'.key)
              clock == unit.policy.m_clock
              after == unit'.policy.m_clock
          IN  /\ after >= clock
              /\ (after + 1) * h.den > h.num
              /\ after = (IF h.num > clock * h.den THEN h.num \div h.den ELSE clock)]_vars

\* C33: in the counting bloom filter m_nb_nonzero is the number of slots
\* that hold a non-zero counter, whatever add, decay and clear calls came
\* before, also when two probes of one add fall on the same slot.
C33_NonZeroSlotsCounted ==
    unit.policy.m_nb_nonzero
        = Cardinality({i \in DOMAIN unit.policy.m_filter : unit.policy.m_filter[i] # 0})

\* A key whose index vector names a slot twice was added, and a decay has
\* emptied some slots and left others.
C33_Witness ==
    /\ Completed("decay")
    /\ \E key \in Range(unit.uses) \cap FilterKeys :
          Cardinality(Probes(unit.policy, key)) < Len(Indices(unit.policy, key))
    /\ unit.policy.m_nb_nonzero >= 1
    /\ \E key \in Range(unit.uses) \cap FilterKeys :
          CountingBloomFilter_estimate(unit.policy, key) = 0

----------------------------------------------------------------------------
(* Properties of the segment sizes of EvictionSegmentedLRU.                *)

\* C34: no assertion of on_cache_hit fails, whatever the size of the
\* protected segment was set to before the call, and after every hit or
\* update the protected segment holds at most that many keys.
C34_DemotionAssertNeverFails ==
    [][(last'.op \in {"on_cache_hit", "on_update"}) =>
          /\ status' = "ok"
          /\ Len(unit'.policy.m_protected_list) <= unit'.policy.m_protected_segment_size]_vars

\* The same for the calls before which the protected segment is not larger
\* than its configured size.
C34_DemotionWithinConfiguredSize ==
    [][(/\ last'.op \in {"on_cache_hit", "on_update"}
        /\ Len(unit.policy.m_protected_list) <= unit.policy.m_protected_segment_size) =>
          /\ status' = "ok"
          /\ Len(unit'.policy.m_protected_list) <= unit'.policy.m_protected_segment_size]_vars

----------------------------------------------------------------------------
(* Properties of TinyLFU: counters, replacement and import.                *)

\* C35: after every touch of TinyLFU no counter of the frequency sketch
\* exceeds the cardinality the policy was configured with.
C35_CountersBoundedByCardinality ==
    \A i \in DOMAIN unit.policy.m_frequency_sketch.m_filter :
        unit.policy.m_frequency_sketch.m_filter[i] <= unit.policy.m_frequency_sketch.m_cardinality

\* A miss has just pushed an estimate above the cardinality: the reset has
\* emptied the gatekeeper and halved the counter to the cardinality or less.
C35_Witness ==
    /\ Completed("on_cache_miss")
    /\ \A i \in DOMAIN unit.policy.m_gatekeeper.m_filter : ~unit.policy.m_gatekeeper.m_filter[i]
    /\ unit.policy.m_frequency_sketch.m_cardinality = MaxFilterCardinality
    /\ CountingBloomFilter_estimate(unit.policy.m_frequency_sketch, last.key) >= 1

----------------------------------------------------------------------------
(* Properties of updates in place and of the tracked usage.                *)

\* C36: insert on a resident key whose replacement the constraint accepts
\* returns true whatever the insertion policy would answer, stores the new
\* item (total_size = key_size + new value_size) under the key, dispatches
\* on_update for the key and nothing else, and leaves the insertion policy,
\* the other entries and the number of items as they were.
C36_UpdateInPlace ==
    [][(/\ last'.op = "insert"
        /\ last'.key \in DOMAIN A.m_data
        /\ can_replace(A.m_constraint_policy, A.m_data[last'.key],
                       Item(MeasureKey(last'.key), last'.value, MeasureValue(last'.value)))) =>
          LET k == last'.key
              old_item == A.m_data[k]
              new_item == Item(MeasureKey(k), last'.value, MeasureValue(last'.value))
              after == cache'["a"]
          IN  /\ status' = "ok"
              /\ last'.ret = TRUE
              /\ after.m_data = [A.m_data EXCEPT ![k] = new_item]
              /\ after.m_data[k].m_value = last'.value
              /\ after.m_data[k].m_total_size = MeasureKey(k) + MeasureValue(last'.value)
              /\ Cache_number_of_items(after) = Cache_number_of_items(A)
              /\ last'.ev # <<>>
              /\ \A i \in 1..Len(last'.ev) : last'.ev[i].ev = "on_update" /\ last'.ev[i].key = k
              /\ Positions(last'.ev, [ev |-> "on_update", pol |-> "eviction", key |-> k]) # {}
              /\ after.m_insertion_policy = A.m_insertion_policy
              /\ after.m_constraint_policy
                    = (IF constraintKind = "memory"
                       THEN constraint_on_update(A.m_constraint_policy, old_item, new_item)
                       ELSE A.m_constraint_policy)]_vars

\* A TinyLFU cache has taken a value for a resident key that its
\* gatekeeper no longer reports, next to another entry.
C36_Witness ==
    /\ insertionKind = "tinylfu" /\ constraintKind = "memory"
    /\ Completed("insert") /\ last.ret = TRUE
    /\ Positions(last.ev, [ev |-> "on_update", pol |-> "constraint", key |-> last.key]) # {}
    /\ ~should_add(A.m_insertion_policy, last.key)
    /\ Cache_number_of_items(A) = 2
    /\ A.m_data[last.key].m_value = last.value

\* What the store of c really uses: bytes under ConstraintMemory, entries
\* under ConstraintCount.
RealUsage(c) ==
    IF constraintKind = "memory"
    THEN SumOver(DOMAIN c.m_data, [k \in DOMAIN c.m_data |-> c.m_data[k].m_total_size])
    ELSE Cardinality(DOMAIN c.m_data)

\* C37: after every completed operation the usage the constraint policy
\* tracks is the usage of the store: memory() is the sum of total_size over
\* the resident items, count() the number of items.
C37_TrackedUsageIsRealUsage ==
    status = "ok" => Usage(A.m_constraint_policy) = RealUsage(A)

\* update_constraint has evicted an entry from a memory-limited cache and
\* left another one.
C37_Witness ==
    /\ constraintKind = "memory"
    /\ Completed("update_constraint")
    /\ ErasedKeys(last.ev) # <<>>
    /\ Cache_number_of_items(A) = 1
    /\ Usage(A.m_constraint_policy) = 2


\* C38: under ConstraintCount an insert that succeeds for a key that was not
\* resident erases exactly one resident entry when the store held
\* m_maximum_count entries and none when it held fewer, and an insert for a
\* resident key erases nothing.
C38_CountInsertEvictsAtMostOne ==
    [][(/\ constraintKind = "count"
        /\ last'.op = "insert"
        /\ status' = "ok") =>
          LET k == last'.key
              P == A.m_constraint_policy
              erased == ErasedKeys(last'.ev)
          IN  IF k \in DOMAIN A.m_data
              THEN erased = <<>>
              ELSE last'.ret = TRUE =>
                     /\ Len(erased) = (IF P.m_count = P.m_maximum_count THEN 1 ELSE 0)
                     /\ \A i \in 1..Len(erased) : erased[i] \in DOMAIN A.m_data
                     /\ Cache_number_of_items(cache'["a"])
                          = Cache_number_of_items(A) + 1 - Len(erased)]_vars

\* A full count-limited cache has taken a new key at the price of one entry.
C38_Witness ==
    /\ constraintKind = "count"
    /\ Completed("insert") /\ last.ret = TRUE
    /\ Len(ErasedKeys(last.ev)) = 1
    /\ ErasedKeys(last.ev)[1] # last.key
    /\ last.key \in DOMAIN A.m_data
    /\ Cache_number_of_items(A) = A.m_constraint_policy.m_maximum_count
    /\ A.m_constraint_policy.m_maximum_count = 2


\* The walk of check_replace over victims meets key itself: the constraint
\* copy still refuses the replacement when the walk arrives at key, and no
\* victim before it stopped the walk.
RECURSIVE WalkMeetsKey(_, _, _, _, _, _)
WalkMeetsKey(c, victims, constraint_copy, key, old_item, new_item) ==
    IF victims = <<>> \/ can_replace(constraint_copy, old_item, new_item) THEN FALSE
    ELSE LET key_to_evict == Head(victims) IN
         IF key_to_evict = key THEN TRUE
         ELSE IF key_to_evict \in DOMAIN c.m_data
         THEN /\ should_replace(c.m_insertion_policy, key_to_evict, key)
              /\ (NDEBUG \/ constraint_on_evict_assert(constraint_copy, c.m_data[key_to_evict]))
              /\ WalkMeetsKey(c, Tail(victims),
                              constraint_on_evict(constraint_copy, c.m_data[key_to_evict]),
                              key, old_item, new_item)
         ELSE NDEBUG /\ WalkMeetsKey(c, Tail(victims), constraint_copy, key, old_item, new_item)

\* C39: should_replace of InsertionTinyLFU is strict: no key replaces itself
\* and of two keys at most one replaces the other.  So in a TinyLFU cache an
\* insert for a resident key never erases that key, and when the victim walk
\* of the update meets the key itself the insert returns false, dispatches
\* and erases nothing and leaves the store and the constraint as they were.
C39_StrictReplacement ==
    /\ [](insertionKind = "tinylfu" =>
            \A a \in InsertKeys, b \in InsertKeys :
               LET P == A.m_insertion_policy
               IN  /\ ~InsertionTinyLFU_should_replace(P, a, a)
                   /\ ~(/\ InsertionTinyLFU_should_replace(P, a, b)
                        /\ InsertionTinyLFU_should_replace(P, b, a)))
    /\ [][(/\ insertionKind = "tinylfu"
           /\ last'.op = "insert"
           /\ last'.key \in DOMAIN A.m_data) =>
             LET k == last'.key
                 old_item == A.m_data[k]
                 new_item == Item(MeasureKey(k), last'.value, MeasureValue(last'.value))
                 after == cache'["a"]
             IN  /\ k \notin Range(ErasedKeys(last'.ev))
                 /\ (\A rd \in Readings(A) :
                        WalkMeetsKey(StaleView(A, rd),
                                     EvictionLRU_victims(StaleView(A, rd).m_eviction_policy),
                                     A.m_constraint_policy, k, old_item, new_item))
                    => /\ status' = "ok"
                       /\ last'.ret = FALSE
                       /\ last'.ev = <<>>
                       /\ after.m_data = A.m_data
                       /\ after.m_data[k].m_value = old_item.m_value
                       /\ after.m_constraint_policy = A.m_constraint_policy
                       /\ after.m_insertion_policy = A.m_insertion_policy]_vars

\* A TinyLFU cache of two entries has refused a larger value for its least
\* recently used key, the first victim of the walk, and still holds the
\* old value.
C39_Witness ==
    /\ insertionKind = "tinylfu" /\ constraintKind = "memory"
    /\ Completed("insert") /\ last.ret = FALSE
    /\ last.ev = <<>>
    /\ last.key \in DOMAIN A.m_data
    /\ A.m_data[last.key].m_value # last.value
    /\ Cache_number_of_items(A) = 2
    /\ NbStale(A.m_eviction_policy.m_keys) = 0
    /\ Head(EvictionLRU_victims(A.m_eviction_policy)) = last.key
    /\ ~can_replace(A.m_constraint_policy, A.m_data[last.key],
                    Item(MeasureKey(last.key), last.value, MeasureValue(last.value)))


\* what the import of the collection dispatches, item after item: on_insert
\* for a key met for the first time, on_update for a key met before
RECURSIVE ImportEvents(_, _)
ImportEvents(collection, n) ==
    IF n = 0 THEN <<>>
    ELSE ImportEvents(collection, n - 1)
         \o Dispatch(IF \E i \in 1..(n - 1) : collection[i][1] = collection[n][1]
                     THEN "on_update" ELSE "on_insert",
                     collection[n][1])

\* C40: the importing constructor never asks the insertion policy: every
\* key of the collection that passed can_add at its turn is stored after
\* the construction, also in a TinyLFU cache, whose policy has observed
\* nothing, would admit none of them and is left as it was constructed;
\* and the import dispatches, for each such item in order, on_insert to
\* the policies that declare it when the key is new and on_update when the
\* collection has named the key before, and nothing else.
C40_ImportSkipsAdmission ==
    last.op = "import" =>
        LET collection == LongestPrefix(unit, Maximum(A.m_constraint_policy))
        IN  /\ status = "ok"
            /\ \A i \in 1..Len(collection) : collection[i][1] \in DOMAIN A.m_data
            /\ observed = {}
            /\ A.m_insertion_policy = NewCache(Maximum(A.m_constraint_policy)).m_insertion_policy
            /\ insertionKind = "tinylfu" =>
                  \A key \in DOMAIN A.m_data : ~should_add(A.m_insertion_policy, key)
            /\ last.ev = ImportEvents(collection, Len(collection))
            /\ \A i \in 1..Len(last.ev) : last.ev[i].pol # "insertion"

\* A TinyLFU cache constructed from three items, two of them for the same
\* key, holds both keys though its policy would admit neither.
C40_Witness ==
    /\ insertionKind = "tinylfu"
    /\ Completed("import") /\ Len(unit) = 3
    /\ Cache_number_of_items(A) = 2
    /\ \A i \in 1..3 : unit[i][1] \in DOMAIN A.m_data
    /\ \A key \in DOMAIN A.m_data : ~should_add(A.m_insertion_policy, key)
    /\ Positions(last.ev, [ev |-> "on_update", pol |-> "eviction", key |-> unit[1][1]]) # {}
    /\ Len(SelectSeq(last.ev, LAMBDA e : e.ev = "on_insert" /\ e.pol = "eviction")) = 2















====
